---- MODULE Spec2Model ----
(***************************************************************************)
(* Quick-Explorer native backend: the STA shell-operation worker           *)
(* (src-tauri/src/sta_worker.rs): the lazily created worker thread, its    *)
(* command channel, the per-call reply channels, the seven commands and    *)
(* the foreground/input handshake run before PerformOperations.            *)
(***************************************************************************)
EXTENDS Integers, Sequences, FiniteSets, TLC

\* Number of StaWorker method invocations (each on a thread of its own).
NumCalls == 2
\* Number of those invocations in the specification that follows the handshake
\* statement by statement.
NumHsCalls == 1
\* Number of those invocations in the specification whose submitters may run
\* on the main thread.
NumMainCalls == 1
\* Number of polls of the mouse button that fit in the 500 ms hardware wait.
MousePollLimit == 2
\* `while attempts < 100` of synchronize_handshake.
MaxAttempts == 100

Calls == 1..NumCalls
HsCalls == 1..NumHsCalls
MainCalls == 1..NumMainCalls
\* A worker is a spawned thread plus the channel it consumes; OnceLock is what
\* keeps this to one, so the model has room for as many as there are calls.
Workers == 1..NumCalls

\* The StaCommand variants.
FileOpKinds == {"DropItems", "MoveItems", "DeleteItems", "RenameItem", "PasteItems"}
MutatingKinds == FileOpKinds \cup {"EmptyRecycleBin"}
Kinds == MutatingKinds \cup {"ListFiles"}

\* hwnd: Option<isize>: None, Some(0) (a null HWND), Some(h) (the main window).
HwndOpts == {"None", "Null", "Main"}
HwndOf(kind) == IF kind \in FileOpKinds THEN HwndOpts ELSE {"None"}

\* OS thread ids: worker k runs on thread k; the UI thread owns the main window;
\* 0 is what GetWindowThreadProcessId answers for a handle that is no window.
UiTid == NumCalls + 1
WorkerTid(k) == k

NoCmd == [kind |-> "None", hwnd |-> "None", id |-> 0]
NoResult == [tag |-> "None", of |-> 0]

VARIABLES
    app_handle,  \* APP_HANDLE is set (lib.rs setup)
    once,        \* the OnceLock WORKER: "empty", "running" (an initializer runs), "done"
    worker_of,   \* the worker whose sender WORKER holds (0: none)
    n_workers,   \* worker threads (and command channels) created so far
    wk,          \* per worker: thread position, channel, locals of the running command
    call,        \* per call: position, the sender it obtained, the value it returned
    resp,        \* per call: its reply channel (Sender state, buffer, replies sent)
    enq_order,   \* per worker: ids in the order their send succeeded
    deq_order,   \* per worker: ids in the order the loop received them
    performs,    \* per call: times the command's Shell operation was invoked
    produced,    \* per call: the result the worker computed for the command
    refreshed,   \* per call: 'refresh-tab' events emitted while executing the command
    ui_call,     \* the call the main (UI) thread is executing (0: it pumps messages)
    OVERLAY_HWND, \* the OnceLock OVERLAY_HWND: the stored window (0: not set)
    windows,      \* the overlay windows CreateWindowExW has made
    creator,      \* per create_drop_overlay call: position, window made, value
                  \* returned (-1: none yet, 0: None, w: Some(window w))
    visible,      \* the stored overlay window is shown
    timer,        \* timer 1 of the stored overlay window is set
    parent_z,     \* z-order of the owner window: "normal", "topmost", "behind"
    foreground,   \* the foreground window: "parent" or "other"
    parent_origin, \* screen position of the owner's client (0, 0): the owner stays
                  \* where it is
    pos,          \* screen rectangle of the overlay window
    main_queue,   \* closures handed to run_on_main_thread, not yet run
    stale,        \* how many of them, from the head, were handed over before
                  \* the latest hide_overlay call returned
    TICKS,        \* static mut TICKS of the WM_TIMER handler
    hdrop,        \* <<report>>: the drop handle of a posted WM_DROPFILES (<<>>: none)
    drops,        \* WM_DROPFILES messages handled
    lbuttons,     \* WM_LBUTTONDOWN messages handled, modulo 2
    emitted,      \* 'app:file-drop' events emitted
    payload,      \* the paths the latest 'app:file-drop' carried
    fs,           \* the target directory of the extractions: path |-> entry
    xt,           \* per extract_archive call: position, locals, events, result
    faults,       \* I/O calls that have failed so far
    folder,       \* names of the files in the directory the frontend shows
                  \* (target_path of paste_items)
    clip,         \* the OS clipboard: sequence number, content, held open by
                  \* another program
    changes,      \* clipboard changes other programs have made
    cache,        \* ClipboardCache: <<>> (None) or <<[seq, info]>>
    gci,          \* the latest get_clipboard_info call: which invocation it is,
                  \* position, seq it read, whether it answered from the
                  \* cache, value returned
    shell,        \* the latest SHFileOperationW command: which invocation it
                  \* is, what the Shell did and what the command returned
    n_lib         \* lib.rs commands invoked so far

\* The state of the drop overlay (drop_overlay.rs).
ovars == <<OVERLAY_HWND, windows, creator, visible, timer, parent_z, foreground,
           parent_origin, pos, main_queue, stale, TICKS, hdrop, drops, lbuttons,
           emitted, payload>>

\* The state of the archive extractions (extraction.rs).
xvars == <<fs, xt, faults>>

\* The state of the clipboard and SHFileOperationW commands of lib.rs.
cvars == <<folder, clip, changes, cache, gci, shell, n_lib>>

\* The state of the commands that lib.rs and extraction.rs run themselves.
lvars == <<xvars, cvars>>

vars == <<app_handle, once, worker_of, n_workers, wk, call, resp, enq_order,
          deq_order, performs, produced, refreshed, ui_call, ovars, lvars>>

\* Locals of one command execution, as they are before a command is received.
IdleLocals ==
    [cur |-> NoCmd, target_thread_id |-> 0, attached |-> FALSE, released |-> FALSE,
     hwnd_win |-> "Null", skipped |-> FALSE, polls |-> 0, attempts |-> 0,
     fg |-> FALSE, act |-> FALSE, hs |-> "none", exhausted |-> FALSE,
     result |-> NoResult]

\* Number of create_drop_overlay calls.
NumCreates == 2
\* Closures that may wait in the main thread's queue.
MaxPending == 1
\* File drops followed.
NumDrops == 1
\* WM_TIMER messages followed.
MaxTicks == 1

Creators == 1..NumCreates

\* Rectangles the frontend passes to show_overlay (OverlayRect); an
\* Option<OverlayRect> is <<>> for None and <<r>> for Some(r).
OverlayRects ==
    {[x |-> 2, y |-> 1, width |-> 3, height |-> 2],
     [x |-> -1, y |-> 4, width |-> 0, height |-> 2]}
RectOpts == {<<>>} \cup {<<r>> : r \in OverlayRects}

\* Client rectangle of the owner window (GetClientRect).
ClientRect == [left |-> 0, top |-> 0, right |-> 8, bottom |-> 6]

\* What a drop handle reports for index 0, 1, ..: a path, or "" when
\* DragQueryFileW answers 0 for the index.
Reports == {<<>>, <<"a", "b">>, <<"b", "a">>, <<"a", "", "b">>}

\* The overlay before create_drop_overlay: CreateWindowExW(.., 0, 0, width,
\* height, parent, ..) gives the window its first rectangle.
InitOverlay ==
    /\ OVERLAY_HWND = 0
    /\ windows = {}
    /\ creator = [c \in Creators |-> [pc |-> "idle", hwnd |-> 0, ret |-> -1]]
    /\ visible = FALSE
    /\ timer = FALSE
    /\ parent_z = "normal"
    /\ foreground = "parent"
    /\ parent_origin = [x |-> 10, y |-> 20]
    /\ pos = [x |-> 0, y |-> 0, width |-> ClientRect.right - ClientRect.left,
              height |-> ClientRect.bottom - ClientRect.top]
    /\ main_queue = <<>>
    /\ stale = 0
    /\ TICKS = 0
    /\ hdrop = <<>>
    /\ drops = 0
    /\ lbuttons = 0
    /\ emitted = 0
    /\ payload = <<>>

\* Number of extract_archive calls.
NumExtracts == 2
\* I/O calls (open, read, write, create, rename) that fail in one behaviour.
MaxFaults == 1
\* Reads of one entry that return a single byte while more is left; every
\* other read returns all that is left of the entry.
MaxShortReads == 1
\* Directories other programs make in the target directory.
MaxForeign == 1

Extractions == 1..NumExtracts

\* An archive entry: its name as the components between '/', whether the name
\* ends in '/' (ZIP) or the entry is flagged a directory (7z), and its
\* uncompressed size.
Entry(name, dir, size) == [name |-> name, dir |-> dir, size |-> size]

\* The archives the frontend passes (archive_path as file stem and extension).
Archives ==
    << [stem |-> "ar", ext |-> "zip",
        entries |-> << Entry(<<"root">>, TRUE, 0), Entry(<<"root", "a.txt">>, FALSE, 2),
                       Entry(<<"root", "sub", "b.txt">>, FALSE, 1) >>],
       [stem |-> "ar", ext |-> "ZIP",
        entries |-> << Entry(<<"a.txt">>, FALSE, 1), Entry(<<"root", "b.txt">>, FALSE, 1) >>],
       [stem |-> "ar", ext |-> "zip",
        entries |-> << Entry(<<"x", "a.txt">>, FALSE, 201), Entry(<<"y">>, TRUE, 0) >>],
       [stem |-> "ar", ext |-> "zip", entries |-> <<>>],
       [stem |-> "ar", ext |-> "7z",
        entries |-> << Entry(<<"in">>, TRUE, 0), Entry(<<"in", "f.txt">>, FALSE, 2) >>],
       [stem |-> "ar", ext |-> "7z",
        entries |-> << Entry(<<"f.txt">>, FALSE, 201), Entry(<<"g.txt">>, FALSE, 0) >>],
       [stem |-> "ar", ext |-> "rar", entries |-> <<>>] >>

NoOutcome == [tag |-> "None", val |-> ""]

\* Locals of one extract_archive call before it starts.
IdleExtract ==
    [pc |-> "idle", archive |-> 0, output_dir |-> "", total_bytes |-> 0,
     single_root |-> <<>>, i |-> 0, left |-> 0, short |-> 0, out_path |-> <<>>,
     bytes_written |-> 0, last_pct |-> 0, events |-> <<>>, bar |-> -1,
     result |-> NoOutcome]

\* The target directory starts empty; no extraction has started.
InitExtract ==
    /\ fs = << >>
    /\ xt = [x \in Extractions |-> IdleExtract]
    /\ faults = 0

\* lib.rs commands followed.
NumLibCalls == 3
\* Clipboard changes by other programs followed.
MaxChanges == 2

\* A file name as std::path parses it: file_stem() and extension() (<<>>: None).
Photo == [stem |-> "photo", ext |-> <<"jpg">>]
Notes == [stem |-> "notes", ext |-> <<>>]

\* The file name itself.
FileName(n) == IF n.ext = <<>> THEN n.stem ELSE n.stem \o "." \o n.ext[1]

\* What the clipboard may hold: a CF_HDROP file list with its Preferred
\* DropEffect (1 copy, 2 move), a CF_DIB image, or nothing.
Contents ==
    << [files |-> <<>>, effect |-> 0, dib |-> FALSE],
       [files |-> <<Photo>>, effect |-> 1, dib |-> FALSE],
       [files |-> <<Photo, Notes>>, effect |-> 2, dib |-> FALSE],
       [files |-> <<>>, effect |-> 0, dib |-> TRUE] >>

\* ClipboardInfo as get_clipboard_info first builds it.
EmptyInfo ==
    [has_files |-> FALSE, paths |-> <<>>, is_cut |-> FALSE, file_count |-> 0,
     has_image |-> FALSE]

NoShell == [cmd |-> "none", at |-> 0, pc |-> "idle", code |-> 0, aborted |-> FALSE, user |-> "none",
            result |-> NoOutcome, pasted |-> <<>>]

\* The directory holds two files, the clipboard is empty and closed, the cache
\* is None and no command has run.
InitLib ==
    /\ folder = {FileName(Photo), FileName(Notes)}
    /\ clip = [seq |-> 1, content |-> 1, open |-> FALSE]
    /\ changes = 0
    /\ cache = <<>>
    /\ gci = [pc |-> "idle", at |-> 0, seq |-> 0, hit |-> FALSE, ret |-> <<>>]
    /\ shell = NoShell
    /\ n_lib = 0

NewWorker ==
    [pc |-> "unspawned", ole |-> "pending", rx |-> FALSE, queue |-> <<>>] @@ IdleLocals

Init ==
    /\ app_handle = FALSE
    /\ once = "empty"
    /\ worker_of = 0
    /\ n_workers = 0
    /\ wk = [k \in Workers |-> NewWorker]
    /\ call = [i \in Calls |-> [pc |-> "idle", sender |-> 0, result |-> NoResult]]
    /\ resp = [i \in Calls |-> [tx |-> "none", buf |-> <<>>, sent |-> 0]]
    /\ enq_order = [k \in Workers |-> <<>>]
    /\ deq_order = [k \in Workers |-> <<>>]
    /\ performs = [i \in Calls |-> 0]
    /\ produced = [i \in Calls |-> NoResult]
    /\ refreshed = [i \in Calls |-> 0]
    /\ ui_call = 0
    /\ InitOverlay
    /\ InitExtract
    /\ InitLib

\* tauri setup: APP_HANDLE.set(app.handle()); commands are invocable afterwards.
Setup ==
    /\ app_handle = FALSE
    /\ app_handle' = TRUE
    /\ UNCHANGED <<ovars, lvars, ui_call, once, worker_of, n_workers, wk, call, resp,
                   enq_order, deq_order,
                   performs, produced, refreshed>>

SetCall(i, r) == call' = [call EXCEPT ![i] = r]
SetWorker(k, r) == wk' = [wk EXCEPT ![k] = r]

\* The ids of the commands held in a channel buffer.
IdsIn(q) == {q[n].id : n \in 1..Len(q)}

\* Reply Senders that outlive the commands that carried them.
DropSenders_Leak(ids) == resp

\* Dropping a set of commands drops the reply Sender each one owns.
DropSenders(ids) ==
    [i \in Calls |-> IF i \in ids THEN [resp[i] EXCEPT !.tx = "dropped"] ELSE resp[i]]

-----------------------------------------------------------------------------
\* The calling side: StaWorker::global() and the seven submit methods.

\* #[tauri::command] fn move_items(..) and its like are synchronous commands:
\* the main thread, which owns the main window, runs the whole call when it is
\* the one that takes the invocation, and pumps no message until the call returns.
InvokeOnMain(i) ==
    /\ app_handle
    /\ call[i].pc = "idle"
    /\ ui_call = 0
    /\ ui_call' = i
    /\ UNCHANGED <<ovars, lvars, app_handle, once, worker_of, n_workers, wk, call, resp,
                   enq_order, deq_order, performs, produced, refreshed>>

\* The main thread is back in its message loop once the call it ran returned.
Returned(i) == IF ui_call = i THEN 0 ELSE ui_call

\* A lazy initialisation without the OnceLock: every caller that finds no worker
\* yet builds one.
GetOrInit_Racy(i) ==
    /\ app_handle
    /\ call[i].pc = "idle"
    /\ IF worker_of # 0
         THEN SetCall(i, [call[i] EXCEPT !.pc = "send", !.sender = worker_of])
         ELSE SetCall(i, [call[i] EXCEPT !.pc = "new"])
    /\ UNCHANGED <<ovars, lvars, ui_call, app_handle, once, worker_of, n_workers, wk, resp, enq_order,
                   deq_order, performs, produced, refreshed>>

\* WORKER.get_or_init: the first caller becomes the initializer, callers that
\* arrive while it runs block, later callers read the stored worker.
GetOrInit(i) ==
    /\ app_handle
    /\ call[i].pc = "idle"
    /\ \/ /\ once = "done"
          /\ SetCall(i, [call[i] EXCEPT !.pc = "send", !.sender = worker_of])
          /\ UNCHANGED once
       \/ /\ once = "empty"
          /\ once' = "running"
          /\ SetCall(i, [call[i] EXCEPT !.pc = "new"])
    /\ UNCHANGED <<ovars, lvars, ui_call, app_handle, worker_of, n_workers, wk, resp, enq_order,
                   deq_order, performs, produced, refreshed>>

\* StaWorker::new inside the initializer: channel(), thread::spawn, and the
\* store of StaWorker { sender: tx } into WORKER.
New(i) ==
    /\ call[i].pc = "new"
    /\ LET k == n_workers + 1 IN
         /\ n_workers' = k
         /\ SetWorker(k, [wk[k] EXCEPT !.pc = "start", !.rx = TRUE])
         /\ worker_of' = k
         /\ SetCall(i, [call[i] EXCEPT !.pc = "send", !.sender = k])
    /\ once' = "done"
    /\ UNCHANGED <<ovars, lvars, ui_call, app_handle, resp, enq_order, deq_order, performs, produced,
                   refreshed>>

\* let (tx, rx) = channel(); self.sender.send(StaCommand::.. { .., response: tx })
\* with map_err(..)?: a send to a channel whose Receiver is gone returns the
\* command (and its Sender) to the caller, which returns the error at once.
Send(i, kind, hwnd) ==
    /\ call[i].pc = "send"
    /\ LET k == call[i].sender IN
         IF wk[k].rx
           THEN /\ SetWorker(k, [wk[k] EXCEPT !.queue =
                        Append(@, [kind |-> kind, hwnd |-> hwnd, id |-> i])])
                /\ resp' = [resp EXCEPT ![i].tx = "alive"]
                /\ enq_order' = [enq_order EXCEPT ![k] = Append(@, i)]
                /\ SetCall(i, [call[i] EXCEPT !.pc = "recv"])
                /\ UNCHANGED ui_call
           ELSE /\ resp' = [resp EXCEPT ![i].tx = "dropped"]
                /\ SetCall(i, [call[i] EXCEPT !.pc = "done",
                                              !.result = [tag |-> "SendErr", of |-> i]])
                /\ ui_call' = Returned(i)
                /\ UNCHANGED <<wk, enq_order>>
    /\ UNCHANGED <<ovars, lvars, app_handle, once, worker_of, n_workers, deq_order, performs,
                   produced, refreshed>>

\* rx.recv().map_err(..)?: a buffered reply is returned even when the Sender is
\* gone; an empty channel whose Sender is gone is a RecvError; otherwise the
\* caller blocks.
Recv(i) ==
    /\ call[i].pc = "recv"
    /\ \/ /\ resp[i].buf # <<>>
          /\ SetCall(i, [call[i] EXCEPT !.pc = "done", !.result = Head(resp[i].buf)])
          /\ resp' = [resp EXCEPT ![i].buf = Tail(@)]
       \/ /\ resp[i].buf = <<>>
          /\ resp[i].tx = "dropped"
          /\ SetCall(i, [call[i] EXCEPT !.pc = "done",
                                        !.result = [tag |-> "RecvErr", of |-> i]])
          /\ UNCHANGED resp
    /\ ui_call' = Returned(i)
    /\ UNCHANGED <<ovars, lvars, app_handle, once, worker_of, n_workers, wk, enq_order,
                   deq_order, performs, produced, refreshed>>

-----------------------------------------------------------------------------
\* The worker thread: the closure of thread::spawn in StaWorker::new.

Executing(k) == wk[k].cur # NoCmd

\* The worker thread ends: its Receiver is dropped, which discards the commands
\* still buffered (and so their reply Senders), and unwinding drops what the
\* running command holds: its reply Sender and its ThreadInputGuard.
Terminated(k, how) ==
    [wk[k] EXCEPT !.pc = how, !.rx = FALSE, !.queue = <<>>, !.attached = FALSE,
                  !.target_thread_id = 0, !.released = wk[k].attached]

\* An initialisation failure that is logged but not returned from.
OleInit_NoReturn(k) ==
    /\ wk[k].pc = "start"
    /\ \E r \in {"ok", "failed"} : SetWorker(k, [wk[k] EXCEPT !.pc = "idle", !.ole = r])
    /\ UNCHANGED <<ovars, lvars, ui_call, app_handle, once, worker_of, n_workers, call, resp, enq_order,
                   deq_order, performs, produced, refreshed>>

\* OleInitialize(None): on Err the closure logs and returns.
OleInit(k) ==
    /\ wk[k].pc = "start"
    /\ \/ /\ SetWorker(k, [wk[k] EXCEPT !.pc = "idle", !.ole = "ok"])
          /\ UNCHANGED resp
       \/ /\ SetWorker(k, [Terminated(k, "returned") EXCEPT !.ole = "failed"])
          /\ resp' = DropSenders(IdsIn(wk[k].queue))
    /\ UNCHANGED <<ovars, lvars, ui_call, app_handle, once, worker_of, n_workers, call, enq_order,
                   deq_order, performs, produced, refreshed>>

\* The first statement of the implementation the match arm calls.
FirstPc(kind) ==
    CASE kind = "ListFiles" -> "list"
      [] kind = "EmptyRecycleBin" -> "empty"
      [] OTHER -> "create"

\* A loop that takes the newest command first.
Dequeue_Lifo(k) ==
    /\ wk[k].pc = "idle"
    /\ wk[k].queue # <<>>
    /\ LET q == wk[k].queue
           cmd == q[Len(q)] IN
         /\ SetWorker(k, [wk[k] EXCEPT !.queue = SubSeq(q, 1, Len(q) - 1),
                                       !.cur = cmd, !.pc = FirstPc(cmd.kind)])
         /\ deq_order' = [deq_order EXCEPT ![k] = Append(@, cmd.id)]
    /\ UNCHANGED <<ovars, lvars, ui_call, app_handle, once, worker_of, n_workers, call, resp, enq_order,
                   performs, produced, refreshed>>

\* while let Ok(cmd) = rx.recv() { match cmd { .. } }: blocks on an empty channel
\* (the static WORKER keeps the Sender alive), else takes the oldest command.
Dequeue(k) ==
    /\ wk[k].pc = "idle"
    /\ wk[k].queue # <<>>
    /\ LET cmd == Head(wk[k].queue) IN
         /\ SetWorker(k, [wk[k] EXCEPT !.queue = Tail(@), !.cur = cmd,
                                       !.pc = FirstPc(cmd.kind)])
         /\ deq_order' = [deq_order EXCEPT ![k] = Append(@, cmd.id)]
    /\ UNCHANGED <<ovars, lvars, ui_call, app_handle, once, worker_of, n_workers, call, resp, enq_order,
                   performs, produced, refreshed>>

\* An implementation whose guard is detached by a statement at its end, which
\* an early return never reaches.
Return_NoDrop(k, tag) ==
    [wk[k] EXCEPT !.pc = "reply",
                  !.attached = IF tag = "Ok" THEN FALSE ELSE @,
                  !.released = IF tag = "Ok" THEN wk[k].attached ELSE FALSE,
                  !.result = [tag |-> tag, of |-> wk[k].cur.id]]

\* The implementation returns `tag`: the function's locals, the guard among
\* them, are dropped (Drop for ThreadInputGuard: AttachThreadInput(.., false) if
\* it had attached) and the value becomes `result` of the match arm.
Return(k, tag) ==
    [wk[k] EXCEPT !.pc = "reply", !.attached = FALSE, !.target_thread_id = 0,
                  !.released = wk[k].attached,
                  !.result = [tag |-> tag, of |-> wk[k].cur.id]]

\* A listing that announces a refresh.
ListFilesImpl_Refresh(k) ==
    /\ wk[k].pc = "list"
    /\ \E ok \in BOOLEAN : SetWorker(k, Return(k, IF ok THEN "Ok" ELSE "ErrList"))
    /\ performs' = [performs EXCEPT ![wk[k].cur.id] = @ + 1]
    /\ refreshed' = [refreshed EXCEPT ![wk[k].cur.id] = @ + 1]
    /\ UNCHANGED <<ovars, lvars, ui_call, app_handle, once, worker_of, n_workers, call, resp,
                   enq_order, deq_order, produced>>

\* list_files_impl: every path of it returns Ok(entries) or Err(message).
ListFilesImpl(k) ==
    /\ wk[k].pc = "list"
    /\ \E ok \in BOOLEAN : SetWorker(k, Return(k, IF ok THEN "Ok" ELSE "ErrList"))
    /\ performs' = [performs EXCEPT ![wk[k].cur.id] = @ + 1]
    /\ UNCHANGED <<ovars, lvars, ui_call, app_handle, once, worker_of, n_workers, call, resp, enq_order,
                   deq_order, produced, refreshed>>

\* empty_recycle_bin_impl: SHEmptyRecycleBinW with a null owner window.
EmptyRecycleBinImpl(k) ==
    /\ wk[k].pc = "empty"
    /\ \E ok \in BOOLEAN : SetWorker(k, Return(k, IF ok THEN "Ok" ELSE "ErrEmpty"))
    /\ performs' = [performs EXCEPT ![wk[k].cur.id] = @ + 1]
    /\ UNCHANGED <<ovars, lvars, ui_call, app_handle, once, worker_of, n_workers, call, resp, enq_order,
                   deq_order, produced, refreshed>>

\* Where a file operation goes once the owner window is dealt with: delete has
\* no destination item to create.
AfterOwner(kind) == IF kind = "DeleteItems" THEN "add" ELSE "resolve"

\* CoCreateInstance(&FileOperation)..?, SetOperationFlags.
CreateFileOp(k) ==
    /\ wk[k].pc = "create"
    /\ \/ SetWorker(k, Return(k, "ErrCreate"))
       \/ SetWorker(k, [wk[k] EXCEPT !.pc = IF wk[k].cur.hwnd = "None"
                                               THEN AfterOwner(wk[k].cur.kind)
                                               ELSE "owner"])
    /\ UNCHANGED <<ovars, lvars, ui_call, app_handle, once, worker_of, n_workers, call, resp, enq_order,
                   deq_order, performs, produced, refreshed>>

\* A guard that attaches to whatever thread owns the window, the worker's own
\* included.
GuardNew_AnyThread(k, hwnd, tid, attach_ok) ==
    LET owner == IF hwnd = "Null" THEN 0 ELSE tid IN
      [target_thread_id |-> owner, attached |-> owner # 0 /\ attach_ok]

\* ThreadInputGuard::new: the thread of the window (0 for a null or invalid
\* handle); attached only if that thread is another one and AttachThreadInput
\* answered TRUE.
GuardNew(k, hwnd, tid, attach_ok) ==
    LET target == IF hwnd = "Null" THEN 0 ELSE tid IN
      [target_thread_id |-> target,
       attached |-> target # 0 /\ target # WorkerTid(k) /\ attach_ok]

\* if let Some(h) = hwnd { hwnd_win = HWND(h); _input_guard = Some(guard);
\* SetOwnerWindow }.
OwnerWindow(k) ==
    /\ wk[k].pc = "owner"
    /\ \E tid \in {0, UiTid, WorkerTid(k)}, attach_ok \in BOOLEAN :
         LET g == GuardNew(k, wk[k].cur.hwnd, tid, attach_ok) IN
           SetWorker(k, [wk[k] EXCEPT !.hwnd_win = wk[k].cur.hwnd,
                                      !.target_thread_id = g.target_thread_id,
                                      !.attached = g.attached,
                                      !.pc = AfterOwner(wk[k].cur.kind)])
    /\ UNCHANGED <<ovars, lvars, ui_call, app_handle, once, worker_of, n_workers, call, resp, enq_order,
                   deq_order, performs, produced, refreshed>>

\* SHCreateItemFromParsingName(target_path)..? (for rename: of the item itself).
ResolveDest(k) ==
    /\ wk[k].pc = "resolve"
    /\ \/ SetWorker(k, Return(k, "ErrDest"))
       \/ SetWorker(k, [wk[k] EXCEPT !.pc = "add"])
    /\ UNCHANGED <<ovars, lvars, ui_call, app_handle, once, worker_of, n_workers, call, resp, enq_order,
                   deq_order, performs, produced, refreshed>>

\* The statement after the items are added: the handshake when the owner
\* window is not null, else PerformOperations at once.
AfterAdd_NoHandshake(hwnd_win) == "perform"

AfterAdd(hwnd_win) == IF hwnd_win # "Null" THEN "hs_mouse" ELSE "perform"

\* for f in &paths { if let Ok(item) = .. { CopyItem / MoveItem / DeleteItem } }:
\* a source that does not resolve is skipped. Rename adds its one item.
AddItems(k) ==
    /\ wk[k].pc = "add"
    /\ \E skip \in (IF wk[k].cur.kind = "RenameItem" THEN {FALSE} ELSE BOOLEAN) :
         LET next == AfterAdd(wk[k].hwnd_win) IN
           SetWorker(k, [wk[k] EXCEPT !.skipped = skip, !.pc = next,
                                      !.hs = IF next = "hs_mouse" THEN "running"
                                                                  ELSE "none"])
    /\ UNCHANGED <<ovars, lvars, ui_call, app_handle, once, worker_of, n_workers, call, resp, enq_order,
                   deq_order, performs, produced, refreshed>>

-----------------------------------------------------------------------------
\* synchronize_handshake(hwnd_win), entered only with a non-null handle.

InHandshake(k) == wk[k].pc \in {"hs_mouse", "hs_send", "hs_loop", "hs_final"}

\* A wait for the mouse button that goes on to the activation loop without the
\* SendMessageW between them.
HsMouse_SkipSend(k) ==
    /\ wk[k].pc = "hs_mouse"
    /\ \E down \in BOOLEAN :
         IF down /\ wk[k].polls <= MousePollLimit
           THEN SetWorker(k, [wk[k] EXCEPT !.polls = @ + 1])
           ELSE SetWorker(k, [wk[k] EXCEPT !.pc = "hs_loop", !.polls = 0])
    /\ UNCHANGED <<ovars, lvars, ui_call, app_handle, once, worker_of, n_workers, call, resp,
                   enq_order, deq_order, performs, produced, refreshed>>

\* 1. while the left button is down { if start.elapsed() > 500ms { break };
\* yield_now() }; one poll is one tick of the clock.
HsMouse(k) ==
    /\ wk[k].pc = "hs_mouse"
    /\ \E down \in BOOLEAN :
         IF down /\ wk[k].polls <= MousePollLimit
           THEN SetWorker(k, [wk[k] EXCEPT !.polls = @ + 1])
           ELSE SetWorker(k, [wk[k] EXCEPT !.pc = "hs_send", !.polls = 0])
    /\ UNCHANGED <<ovars, lvars, ui_call, app_handle, once, worker_of, n_workers, call, resp, enq_order,
                   deq_order, performs, produced, refreshed>>

\* SendMessageW to a window of thread tid returns when that thread has
\* dispatched the message: at once for an invalid handle (0) or a window of the
\* sending thread, and for the main thread when it next pumps its queue, which
\* it does not do while it runs a synchronous command.
Dispatches(k, tid) == tid # UiTid \/ ui_call = 0

\* 2. SendMessageW(hwnd, WM_NULL): blocks until the window's thread took it.
HsSendMessage(k) ==
    /\ wk[k].pc = "hs_send"
    /\ Dispatches(k, wk[k].target_thread_id)
    /\ SetWorker(k, [wk[k] EXCEPT !.pc = "hs_loop"])
    /\ UNCHANGED <<ovars, lvars, ui_call, app_handle, once, worker_of, n_workers, call, resp, enq_order,
                   deq_order, performs, produced, refreshed>>

\* A loop that is content with the foreground query alone.
HsAttempt_FgOnly(k) ==
    /\ wk[k].pc = "hs_loop"
    /\ wk[k].attempts < MaxAttempts
    /\ \E is_fg \in BOOLEAN, is_act \in BOOLEAN :
         IF is_fg
           THEN SetWorker(k, [wk[k] EXCEPT !.fg = TRUE, !.act = is_act,
                                           !.pc = "hs_final"])
           ELSE SetWorker(k, [wk[k] EXCEPT !.fg = is_fg, !.act = is_act,
                                           !.attempts = @ + 1])
    /\ UNCHANGED <<ovars, lvars, ui_call, app_handle, once, worker_of, n_workers, call, resp,
                   enq_order, deq_order, performs, produced, refreshed>>

\* 3. One turn of `while attempts < 100`: the four activation calls, the two
\* queries (is_fg: GetForegroundWindow() == hwnd, is_act: GetActiveWindow() ==
\* hwnd, whatever the OS answers), break when both hold, else sleep and count.
HsAttempt(k) ==
    /\ wk[k].pc = "hs_loop"
    /\ wk[k].attempts < MaxAttempts
    /\ \E is_fg \in BOOLEAN, is_act \in BOOLEAN :
         IF is_fg /\ is_act
           THEN SetWorker(k, [wk[k] EXCEPT !.fg = TRUE, !.act = TRUE,
                                           !.pc = "hs_final"])
           ELSE SetWorker(k, [wk[k] EXCEPT !.fg = is_fg, !.act = is_act,
                                           !.attempts = @ + 1])
    /\ UNCHANGED <<ovars, lvars, ui_call, app_handle, once, worker_of, n_workers, call, resp, enq_order,
                   deq_order, performs, produced, refreshed>>

\* The loop condition fails: attempts reached 100 without convergence
\* (`exhausted` records it for the rest of the command).
HsExhausted(k) ==
    /\ wk[k].pc = "hs_loop"
    /\ wk[k].attempts >= MaxAttempts
    /\ SetWorker(k, [wk[k] EXCEPT !.pc = "hs_final", !.exhausted = TRUE])
    /\ UNCHANGED <<ovars, lvars, ui_call, app_handle, once, worker_of, n_workers, call, resp, enq_order,
                   deq_order, performs, produced, refreshed>>

\* A handshake whose failure to converge fails the command.
HsFinal_FailOnExhaust(k) ==
    /\ wk[k].pc = "hs_final"
    /\ IF wk[k].exhausted
         THEN SetWorker(k, Return(k, "ErrHandshake"))
         ELSE SetWorker(k, [wk[k] EXCEPT !.pc = "perform", !.hs = "done",
                                         !.attempts = 0, !.fg = FALSE, !.act = FALSE])
    /\ UNCHANGED <<ovars, lvars, ui_call, app_handle, once, worker_of, n_workers, call, resp,
                   enq_order, deq_order, performs, produced, refreshed>>

\* 4. The final AllowSetForegroundWindow, and the function returns.
HsFinal(k) ==
    /\ wk[k].pc = "hs_final"
    /\ SetWorker(k, [wk[k] EXCEPT !.pc = "perform", !.hs = "done", !.attempts = 0,
                                   !.fg = FALSE, !.act = FALSE])
    /\ UNCHANGED <<ovars, lvars, ui_call, app_handle, once, worker_of, n_workers, call, resp, enq_order,
                   deq_order, performs, produced, refreshed>>

\* The call synchronize_handshake(hwnd_win) as one step, from its first
\* statement to its return, which needs the SendMessageW in it to return: it
\* touches nothing but its own locals and the OS focus state, and its locals
\* end with it. How its activation loop ended is followed in SpecHandshake.
SynchronizeHandshake(k) ==
    /\ wk[k].pc = "hs_mouse"
    /\ Dispatches(k, wk[k].target_thread_id)
    /\ SetWorker(k, [wk[k] EXCEPT !.pc = "perform", !.hs = "done"])
    /\ UNCHANGED <<ovars, lvars, ui_call, app_handle, once, worker_of, n_workers, call, resp, enq_order,
                   deq_order, performs, produced, refreshed>>

-----------------------------------------------------------------------------
\* A PerformOperations that is called again after it failed.
Perform_Retry(k) ==
    /\ wk[k].pc = "perform"
    /\ \/ UNCHANGED wk
       \/ SetWorker(k, [wk[k] EXCEPT !.pc = "refresh"])
    /\ performs' = [performs EXCEPT ![wk[k].cur.id] = @ + 1]
    /\ UNCHANGED <<ovars, lvars, ui_call, app_handle, once, worker_of, n_workers, call, resp, enq_order,
                   deq_order, produced, refreshed>>

\* file_op.PerformOperations().map_err(..)?
Perform(k) ==
    /\ wk[k].pc = "perform"
    /\ \/ SetWorker(k, Return(k, "ErrPerform"))
       \/ SetWorker(k, [wk[k] EXCEPT !.pc = "refresh"])
    /\ performs' = [performs EXCEPT ![wk[k].cur.id] = @ + 1]
    /\ UNCHANGED <<ovars, lvars, ui_call, app_handle, once, worker_of, n_workers, call, resp, enq_order,
                   deq_order, produced, refreshed>>

\* notify_refresh(): emits 'refresh-tab' if APP_HANDLE is set; then Ok(..).
NotifyRefresh(k) ==
    /\ wk[k].pc = "refresh"
    /\ refreshed' = [refreshed EXCEPT ![wk[k].cur.id] = IF app_handle THEN @ + 1 ELSE @]
    /\ SetWorker(k, Return(k, "Ok"))
    /\ UNCHANGED <<ovars, lvars, ui_call, app_handle, once, worker_of, n_workers, call, resp, enq_order,
                   deq_order, performs, produced>>

\* A reply that goes out on another command's channel.
ResponseOf_Cross(cmd) == (cmd.id % NumCalls) + 1

\* The `response` Sender the match arm takes out of the command.
ResponseOf(cmd) == cmd.id

\* A loop that propagates an Err with `?` instead of sending it.
Reply_DropOnErr(k) ==
    /\ wk[k].pc = "reply"
    /\ LET c == ResponseOf(wk[k].cur) IN
         resp' = [resp EXCEPT ![c] =
                    IF wk[k].result.tag = "Ok"
                      THEN [@ EXCEPT !.buf = Append(@, wk[k].result),
                                     !.sent = @ + 1, !.tx = "dropped"]
                      ELSE [@ EXCEPT !.tx = "dropped"]]
    /\ produced' = [produced EXCEPT ![wk[k].cur.id] = wk[k].result]
    /\ SetWorker(k, [pc |-> "idle", ole |-> wk[k].ole, rx |-> wk[k].rx,
                      queue |-> wk[k].queue, attached |-> wk[k].attached]
                     @@ IdleLocals)
    /\ UNCHANGED <<ovars, lvars, ui_call, app_handle, once, worker_of, n_workers, call, enq_order,
                   deq_order, performs, refreshed>>

\* let _ = response.send(result); the arm ends, the Sender is dropped, and the
\* loop is back at rx.recv().
Reply(k) ==
    /\ wk[k].pc = "reply"
    /\ LET c == ResponseOf(wk[k].cur) IN
         resp' = [resp EXCEPT ![c] = [@ EXCEPT !.buf = Append(@, wk[k].result),
                                               !.sent = @ + 1, !.tx = "dropped"]]
    /\ produced' = [produced EXCEPT ![wk[k].cur.id] = wk[k].result]
    /\ SetWorker(k, [pc |-> "idle", ole |-> wk[k].ole, rx |-> wk[k].rx,
                      queue |-> wk[k].queue, attached |-> wk[k].attached]
                     @@ IdleLocals)
    /\ UNCHANGED <<ovars, lvars, ui_call, app_handle, once, worker_of, n_workers, call, enq_order,
                   deq_order, performs, refreshed>>

\* A panic inside an implementation unwinds the worker thread.
Panic(k) ==
    /\ Executing(k)
    /\ wk[k].pc # "reply"
    /\ SetWorker(k, Terminated(k, "panicked"))
    /\ resp' = DropSenders(IdsIn(wk[k].queue) \cup {wk[k].cur.id})
    /\ UNCHANGED <<ovars, lvars, ui_call, app_handle, once, worker_of, n_workers, call, enq_order,
                   deq_order, performs, produced, refreshed>>

-----------------------------------------------------------------------------
CallStepOf(S) ==
    \E i \in S :
        \/ GetOrInit(i)
        \/ New(i)
        \/ \E kind \in Kinds : \E hwnd \in HwndOf(kind) : Send(i, kind, hwnd)
        \/ Recv(i)

\* The statements of the worker thread outside synchronize_handshake.
WorkerCommon(k) ==
    \/ OleInit(k)
    \/ Dequeue(k)
    \/ ListFilesImpl(k)
    \/ EmptyRecycleBinImpl(k)
    \/ CreateFileOp(k)
    \/ OwnerWindow(k)
    \/ ResolveDest(k)
    \/ AddItems(k)
    \/ Perform(k)
    \/ NotifyRefresh(k)
    \/ Reply(k)
    \/ Panic(k)

CallStep == CallStepOf(Calls)

WorkerStep == \E k \in Workers : WorkerCommon(k) \/ SynchronizeHandshake(k)

Next == Setup \/ CallStep \/ WorkerStep

\* The command queue under any interleaving of NumCalls submitting threads,
\* none of them the main thread: a submitter on the main thread only takes
\* steps away from the worker (Dispatches), it adds none.
Spec == Init /\ [][Next]_vars

HsCallStep == CallStepOf(HsCalls)

HsWorkerStep ==
    \E k \in Workers :
        \/ WorkerCommon(k)
        \/ HsMouse(k)
        \/ HsSendMessage(k)
        \/ HsAttempt(k)
        \/ HsExhausted(k)
        \/ HsFinal(k)

HsNext == Setup \/ HsCallStep \/ HsWorkerStep

\* The same worker with the handshake followed statement by statement.
SpecHandshake == Init /\ [][HsNext]_vars

MainCallStep == CallStepOf(MainCalls) \/ \E i \in MainCalls : InvokeOnMain(i)

MainNext == Setup \/ MainCallStep \/ WorkerStep

\* The worker with submitters that may be synchronous commands on the main
\* thread, the thread that owns the window the handshake sends WM_NULL to.
SpecMain == Init /\ [][MainNext]_vars

-----------------------------------------------------------------------------
\* Vocabulary of the properties.

\* The command of call i was accepted by the channel of the worker it was sent to.
Accepted(i) ==
    /\ call[i].sender # 0
    /\ \E n \in 1..Len(enq_order[call[i].sender]) : enq_order[call[i].sender][n] = i

\* The worker received the command of call i and is through with its match arm.
Completed(i) ==
    /\ call[i].sender # 0
    /\ \E n \in 1..Len(deq_order[call[i].sender]) : deq_order[call[i].sender][n] = i
    /\ wk[call[i].sender].cur.id # i

\* The worker thread has ended (failed OleInitialize, or a panic).
Gone(k) == wk[k].pc \in {"returned", "panicked"}

CommErrors == {"SendErr", "RecvErr"}

\* C1 (as stated): every command accepted by the worker's queue receives
\* exactly one reply on its own reply channel; none is left without a reply.
C1_EveryAcceptedCommandReplied ==
    \A i \in Calls : (call[i].pc = "done" /\ Accepted(i)) => resp[i].sent = 1

\* C1 (amended): no command receives two replies; a command the worker has
\* completed, with Ok or with Err, has received exactly one; a command that was
\* accepted but whose worker thread ended before completing it has received
\* none, and its caller returns a receive error.
C1_OneReplyPerCompletedCommand ==
    \A i \in Calls :
        /\ resp[i].sent <= 1
        /\ Completed(i) <=> resp[i].sent = 1
        /\ (call[i].pc = "done" /\ Accepted(i) /\ resp[i].sent = 0)
              => (Gone(call[i].sender) /\ call[i].result.tag = "RecvErr")

\* A command whose Shell operation failed has been answered, once, with the error.
C1_Witness ==
    \E i \in Calls :
        /\ call[i].pc = "done"
        /\ call[i].result.tag = "ErrPerform"
        /\ resp[i].sent = 1

\* C2 (as stated): once all N submit calls have returned, N replies were
\* observed, each the result the worker produced for that call's command.
C2_AllCallsGetTheirReply ==
    (\A i \in Calls : call[i].pc = "done")
        => \A i \in Calls : resp[i].sent = 1 /\ call[i].result = produced[i]

\* C2 (amended): a reply in flight or returned is the one the worker produced
\* for that very command, after it finished executing it, and no channel ever
\* carries two; a submit call returns either that reply or, when the worker
\* thread has ended without replying, a worker-communication error.
C2_RepliesCorrelated ==
    \A i \in Calls :
        /\ Len(resp[i].buf) <= 1
        /\ \A n \in 1..Len(resp[i].buf) :
              resp[i].buf[n] = produced[i] /\ resp[i].buf[n].of = i /\ Completed(i)
        /\ call[i].pc = "done" =>
              \/ /\ call[i].result.tag \in CommErrors
                 /\ resp[i].sent = 0
                 /\ Gone(call[i].sender)
              \/ /\ call[i].result = produced[i]
                 /\ call[i].result.of = i
                 /\ resp[i].sent = 1
                 /\ resp[i].buf = <<>>
                 /\ Completed(i)

\* Two calls have returned two different results, each its own.
C2_Witness ==
    \E i \in Calls, j \in Calls :
        /\ call[i].pc = "done" /\ call[i].result.tag = "Ok" /\ call[i].result.of = i
        /\ call[j].pc = "done" /\ call[j].result.tag = "ErrDest" /\ call[j].result.of = j

\* C3: the worker receives commands in the order they were enqueued, and a
\* command is received only after every command enqueued before it has been
\* executed and answered.
C3_FifoExecution ==
    \A k \in Workers :
        /\ Len(deq_order[k]) <= Len(enq_order[k])
        /\ \A n \in 1..Len(deq_order[k]) :
              /\ deq_order[k][n] = enq_order[k][n]
              /\ n < Len(deq_order[k]) =>
                    /\ resp[deq_order[k][n]].sent = 1
                    /\ produced[deq_order[k][n]] # NoResult
                    /\ wk[k].cur.id # deq_order[k][n]

\* Call 2 enqueued before call 1, and the worker is executing call 1's command.
C3_Witness ==
    \E k \in Workers :
        /\ Len(enq_order[k]) >= 2
        /\ enq_order[k][1] = 2
        /\ enq_order[k][2] = 1
        /\ wk[k].cur.id = 1
        /\ wk[k].pc = "perform"

\* C4: at most one command is between 'received' and 'reply sent', and at most
\* one handshake is running, whatever the number of submitting threads.
C4_OneCommandAtATime ==
    /\ Cardinality({k \in Workers : Executing(k) /\ ~Gone(k)}) <= 1
    /\ Cardinality({k \in Workers : InHandshake(k)}) <= 1

\* A handshake is running while another thread's command waits in the channel.
C4_Witness ==
    \E k \in Workers : InHandshake(k) /\ Len(wk[k].queue) >= 1

\* C5 (as stated): a mutating command about to reply Ok has emitted 'refresh-tab'.
C5_RefreshAfterEverySuccess ==
    \A k \in Workers :
        (wk[k].pc = "reply" /\ wk[k].cur.kind \in MutatingKinds /\ wk[k].result.tag = "Ok")
            => refreshed[wk[k].cur.id] >= 1

\* C6: when OleInitialize failed, the worker receives and executes no command,
\* and a submit call through it returns nothing but a communication error.
C6_NoResultAfterFailedInit ==
    \A k \in Workers :
        wk[k].ole = "failed" =>
            /\ deq_order[k] = <<>>
            /\ ~Executing(k)
            /\ \A i \in Calls :
                  call[i].sender = k =>
                      /\ performs[i] = 0
                      /\ produced[i] = NoResult
                      /\ call[i].pc = "done" => call[i].result.tag \in CommErrors

\* After a failed initialisation one call got a receive error (it had enqueued
\* before the thread returned) and another a send error.
C6_Witness ==
    \E k \in Workers, i \in Calls, j \in Calls :
        /\ wk[k].ole = "failed"
        /\ call[i].sender = k /\ call[i].result.tag = "RecvErr"
        /\ call[j].sender = k /\ call[j].result.tag = "SendErr"

\* A caller waits for a reply that the worker, now ended, never sent.
WaitsOnDeadWorker(i) ==
    /\ call[i].pc = "recv"
    /\ resp[i].buf = <<>>
    /\ Gone(call[i].sender)

\* C7 (as stated): such a caller stays blocked in its receive.
C7_WaiterBlocksForever ==
    [][\A i \in Calls : WaitsOnDeadWorker(i) => call'[i].pc = "recv"]_vars

\* C7 (amended): the caller observes the termination: the command's reply
\* Sender went with the worker, so the receive is not blocked, and it returns
\* the receive error; a receive error is returned in no other situation.
C7_WaiterGetsRecvError ==
    \A i \in Calls :
        /\ WaitsOnDeadWorker(i) => (resp[i].tx = "dropped" /\ ENABLED Recv(i))
        /\ call[i].result.tag = "RecvErr" =>
              (Gone(call[i].sender) /\ resp[i].sent = 0 /\ Accepted(i))

\* A caller whose command was running when the worker panicked got the error.
C7_Witness ==
    \E i \in Calls :
        /\ call[i].result.tag = "RecvErr"
        /\ wk[call[i].sender].pc = "panicked"
        /\ wk[call[i].sender].cur.id = i

\* C8: one worker thread and one channel, shared by every caller, and never a
\* second one, also after the first has ended.
C8_SingleWorker ==
    /\ n_workers <= 1
    /\ Cardinality({k \in Workers : wk[k].pc # "unspawned"}) <= 1
    /\ \A i \in Calls : call[i].sender \in {0, worker_of}
    /\ \A i \in Calls, j \in Calls :
          (call[i].sender # 0 /\ call[j].sender # 0) => call[i].sender = call[j].sender

\* A call made after the only worker ended still got that worker's sender.
C8_Witness ==
    /\ n_workers = 1
    /\ \E i \in Calls, j \in Calls :
          /\ i # j
          /\ call[i].result.tag = "SendErr"
          /\ call[j].sender = call[i].sender
          /\ Gone(call[i].sender)

\* C9: the Shell operation of a command is invoked at most once; when it fails
\* the error is the reply.
C9_NoRetry ==
    /\ \A i \in Calls : performs[i] <= 1
    /\ \A k \in Workers :
          (wk[k].pc = "reply" /\ wk[k].result.tag \in {"ErrPerform", "ErrEmpty", "ErrList"})
              => performs[wk[k].cur.id] = 1

\* A failed PerformOperations was returned to the caller after one invocation.
C9_Witness ==
    \E i \in Calls :
        call[i].pc = "done" /\ call[i].result.tag = "ErrPerform" /\ performs[i] = 1

\* C10 (as stated): a worker about to invoke a destructive Shell operation has
\* run the handshake to completion for the command.
C10_HandshakeBeforeEveryOperation ==
    \A k \in Workers : wk[k].pc \in {"perform", "empty"} => wk[k].hs = "done"

\* C10 (amended): before PerformOperations of a drop, move, delete, rename or
\* paste command that carries a non-null owner window the handshake has run to
\* completion; a command with no owner window (None or a null handle) and
\* EmptyRecycleBin run no handshake.
C10_HandshakeBeforeOwnedOperation ==
    \A k \in Workers :
        /\ wk[k].pc \in {"perform", "refresh"} =>
              (wk[k].hs = "done" <=> wk[k].cur.hwnd = "Main")
        /\ (wk[k].pc \in {"perform", "refresh"} /\ wk[k].cur.hwnd # "Main") =>
              wk[k].hs = "none"
        /\ wk[k].pc = "empty" => wk[k].hs = "none"
        /\ \A i \in Calls :
              (performs[i] > 0 /\ wk[k].cur.id = i /\ wk[k].cur.hwnd = "Main")
                  => wk[k].hs = "done"

\* A delete with an owner window is at PerformOperations with the handshake
\* completed.
C10_Witness ==
    \E k \in Workers :
        /\ wk[k].pc = "perform"
        /\ wk[k].cur.kind = "DeleteItems"
        /\ wk[k].cur.hwnd = "Main"
        /\ wk[k].hs = "done"

-----------------------------------------------------------------------------
\* C11: the handshake never blocks indefinitely: whatever the state of the
\* mouse button, of the foreground window and of the owner window's message
\* queue, a worker that is inside synchronize_handshake can go on to its return.
C11_HandshakeNeverBlocks ==
    \A k \in Workers : wk[k].pc = "hs_mouse" => ENABLED SynchronizeHandshake(k)

-----------------------------------------------------------------------------
\* Activation attempts the loop has made so far: the failed ones it counted and
\* the one it broke out of.
AttemptsMade(k) ==
    wk[k].attempts + (IF wk[k].pc = "hs_final" /\ ~wk[k].exhausted THEN 1 ELSE 0)

\* C12: the activation loop makes at most 100 attempts; it goes round again
\* only after an attempt that left the foreground or the active window
\* different from the owner window, and it is left either at the first attempt
\* after which both equal the owner window or when 100 attempts have failed.
C12_LoopBoundedAndStopsOnConvergence ==
    \A k \in Workers :
        /\ AttemptsMade(k) <= MaxAttempts
        /\ wk[k].pc = "hs_loop" => ~(wk[k].fg /\ wk[k].act)
        /\ wk[k].pc = "hs_final" =>
              IF wk[k].exhausted
                THEN wk[k].attempts = MaxAttempts /\ ~(wk[k].fg /\ wk[k].act)
                ELSE wk[k].fg /\ wk[k].act /\ wk[k].attempts < MaxAttempts

\* The loop is left on convergence at its 100th attempt, after 99 failed ones.
C12_Witness ==
    \E k \in Workers :
        /\ wk[k].pc = "hs_final"
        /\ wk[k].fg /\ wk[k].act
        /\ AttemptsMade(k) = MaxAttempts

-----------------------------------------------------------------------------
\* C13: a command whose handshake used up its 100 attempts without converging
\* goes on to PerformOperations all the same: when its result is ready the
\* Shell operation has been invoked once, and the result is Ok (with the
\* refresh emitted) or the Shell operation's own error, nothing else.
C13_ExhaustionIsNotAnError ==
    \A k \in Workers :
        wk[k].exhausted =>
            /\ wk[k].pc \in {"hs_final", "perform", "refresh", "reply", "panicked"}
            /\ wk[k].pc = "reply" =>
                  /\ performs[wk[k].cur.id] = 1
                  /\ \/ wk[k].result.tag = "Ok" /\ refreshed[wk[k].cur.id] = 1
                     \/ wk[k].result.tag = "ErrPerform" /\ refreshed[wk[k].cur.id] = 0

\* A command whose handshake never converged is about to be answered Ok.
C13_Witness ==
    \E k \in Workers :
        /\ wk[k].exhausted
        /\ wk[k].pc = "reply"
        /\ wk[k].result.tag = "Ok"
        /\ performs[wk[k].cur.id] = 1

-----------------------------------------------------------------------------
\* C14: the worker's input queue is attached to another thread only while a
\* command that carries an owner window of that thread is being executed: a
\* worker that is idle, that has a result ready to send (success, Shell error or
\* early return) or that has ended (panic) holds no attachment.
C14_NoAttachmentOutsideCommand ==
    \A k \in Workers :
        /\ wk[k].pc \in {"unspawned", "start", "idle", "reply", "returned", "panicked"}
              => ~wk[k].attached
        /\ wk[k].attached =>
              /\ Executing(k)
              /\ wk[k].cur.hwnd = "Main"
              /\ wk[k].target_thread_id = UiTid

\* A command that had attached to the window's thread returns early on an
\* unresolvable destination, and its guard has detached.
C14_Witness ==
    \E k \in Workers :
        /\ wk[k].pc = "reply"
        /\ wk[k].result.tag = "ErrDest"
        /\ wk[k].released
        /\ ~wk[k].attached

-----------------------------------------------------------------------------
\* The drop overlay (drop_overlay.rs).

\* The variables of the worker and of its callers.
wvars == <<once, worker_of, n_workers, wk, call, resp, enq_order, deq_order,
           performs, produced, refreshed, ui_call>>

SetCreator(c, r) == creator' = [creator EXCEPT ![c] = r]

\* pub fn create_drop_overlay: if let Some(&hwnd_val) = OVERLAY_HWND.get()
\* { return Some(..) }.
CreateGet(c) ==
    /\ app_handle
    /\ creator[c].pc \in {"idle", "done"}
    /\ IF OVERLAY_HWND # 0
         THEN SetCreator(c, [pc |-> "done", hwnd |-> 0, ret |-> OVERLAY_HWND])
         ELSE SetCreator(c, [pc |-> "register", hwnd |-> 0, ret |-> -1])
    /\ UNCHANGED <<wvars, lvars, app_handle, OVERLAY_HWND, windows, visible, timer, parent_z,
                   foreground, parent_origin, pos, main_queue, TICKS, hdrop,
                   drops, emitted, payload>>

\* if !register_overlay_class() { return None }
RegisterOverlayClass(c) ==
    /\ creator[c].pc = "register"
    /\ \/ SetCreator(c, [creator[c] EXCEPT !.pc = "create"])
       \/ SetCreator(c, [creator[c] EXCEPT !.pc = "done", !.ret = 0])
    /\ UNCHANGED <<wvars, lvars, app_handle, OVERLAY_HWND, windows, visible, timer, parent_z,
                   foreground, parent_origin, pos, main_queue, TICKS, hdrop,
                   drops, emitted, payload>>

\* CreateWindowExW(..); if hwnd.is_err() { return None }; the attributes, the
\* drag acceptance and the message filters of the new window (c names it).
CreateWindow(c) ==
    /\ creator[c].pc = "create"
    /\ \/ /\ SetCreator(c, [creator[c] EXCEPT !.pc = "set", !.hwnd = c])
          /\ windows' = windows \cup {c}
       \/ /\ SetCreator(c, [creator[c] EXCEPT !.pc = "done", !.ret = 0])
          /\ UNCHANGED windows
    /\ UNCHANGED <<wvars, lvars, app_handle, OVERLAY_HWND, visible, timer, parent_z,
                   foreground, parent_origin, pos, main_queue, TICKS, hdrop,
                   drops, emitted, payload>>

\* let _ = OVERLAY_HWND.set(hwnd.0 as isize): a set on a full OnceLock changes
\* nothing and its Err is ignored; Some(hwnd) is returned either way.
SetOverlayHwnd(c) ==
    /\ creator[c].pc = "set"
    /\ OVERLAY_HWND' = IF OVERLAY_HWND = 0 THEN creator[c].hwnd ELSE OVERLAY_HWND
    /\ SetCreator(c, [creator[c] EXCEPT !.pc = "done", !.ret = creator[c].hwnd])
    /\ UNCHANGED <<wvars, lvars, app_handle, windows, visible, timer, parent_z, foreground,
                   parent_origin, pos, main_queue, TICKS, hdrop, drops, emitted,
                   payload>>

CreateDropOverlay(c) ==
    CreateGet(c) \/ RegisterOverlayClass(c) \/ CreateWindow(c) \/ SetOverlayHwnd(c)

\* #[tauri::command] show_overlay(window, rect): returns at once without a
\* stored window; else captures the owner's handle (parent: whether
\* window.hwnd() gave one) and hands the closure to run_on_main_thread.
ShowOverlay(parent, rect) ==
    /\ OVERLAY_HWND # 0
    /\ Len(main_queue) < MaxPending
    /\ main_queue' = Append(main_queue, [parent |-> parent, rect |-> rect])
    /\ UNCHANGED <<wvars, lvars, app_handle, OVERLAY_HWND, windows, creator, visible, timer,
                   parent_z, foreground, parent_origin, pos, TICKS, hdrop,
                   drops, emitted, payload>>

\* A transform taken on the overlay window itself.
Placement_OnOverlay(origin, rect, client_ok) ==
    IF rect # <<>>
      THEN [x |-> pos.x + rect[1].x, y |-> pos.y + rect[1].y,
            width |-> rect[1].width, height |-> rect[1].height]
      ELSE [x |-> pos.x, y |-> pos.y, width |-> pos.width, height |-> pos.height]

\* let (x, y, width, height) = if let Some(r) = rect { pt = (0, 0);
\* ClientToScreen(parent, &mut pt); (pt.x + r.x, pt.y + r.y, r.width, r.height) }
\* else if GetClientRect(parent, ..).is_ok() { (pt.x, pt.y, right - left,
\* bottom - top) } else { (0, 0, 0, 0) }; origin is what ClientToScreen gives
\* (screen and client coordinates are far from the limits of i32).
Placement(origin, rect, client_ok) ==
    IF rect # <<>>
      THEN [x |-> origin.x + rect[1].x, y |-> origin.y + rect[1].y,
            width |-> rect[1].width, height |-> rect[1].height]
      ELSE IF client_ok
             THEN [x |-> origin.x, y |-> origin.y,
                   width |-> ClientRect.right - ClientRect.left,
                   height |-> ClientRect.bottom - ClientRect.top]
             ELSE [x |-> 0, y |-> 0, width |-> 0, height |-> 0]

\* SetTimer(Some(overlay_hwnd), 1, 50, None): sets timer 1 of the window, or
\* restarts it; when it answers 0 (ok false) the timer is as it was.
SetTimer(running, ok) == running \/ ok

\* The closure of show_overlay on the main thread: SetTimer, whose failure is
\* logged and no more; with an owner handle: the owner goes topmost, the
\* overlay is placed if width > 0 && height > 0, SetTimer again;
\* ShowWindow(SW_SHOW) in every case.
ShowOnMain ==
    /\ main_queue # <<>>
    /\ LET c == Head(main_queue) IN
         /\ \E ok \in BOOLEAN : timer' = SetTimer(timer, ok)
         /\ IF c.parent
              THEN /\ parent_z' = "topmost"
                   /\ \E client_ok \in BOOLEAN :
                        LET p == Placement(parent_origin, c.rect, client_ok) IN
                          pos' = IF p.width > 0 /\ p.height > 0 THEN p ELSE pos
              ELSE UNCHANGED <<parent_z, pos>>
         /\ visible' = TRUE
    /\ main_queue' = Tail(main_queue)
    /\ UNCHANGED <<wvars, lvars, app_handle, OVERLAY_HWND, windows, creator, foreground,
                   parent_origin, TICKS, hdrop, drops, emitted, payload>>

\* demote_parent: the owner (the overlay always has one) goes right behind the
\* foreground window when that is another window, else back to not-topmost.
DemoteParent == parent_z' = IF foreground # "parent" THEN "behind" ELSE "normal"

\* A drop that restores the owner as a cancelled drag does.
BringParentToForeground_Demote ==
    /\ DemoteParent
    /\ UNCHANGED foreground

\* bring_parent_to_foreground: SetWindowPos(p, HWND_NOTOPMOST, ..);
\* SetForegroundWindow(p).
BringParentToForeground ==
    /\ parent_z' = "normal"
    /\ foreground' = "parent"

\* A hide command that toggles the window.
HideOverlay_Toggle ==
    /\ OVERLAY_HWND # 0
    /\ timer' = ~visible
    /\ visible' = ~visible
    /\ DemoteParent
    /\ UNCHANGED <<wvars, lvars, app_handle, OVERLAY_HWND, windows, creator, foreground,
                   parent_origin, pos, main_queue, TICKS, hdrop, drops,
                   emitted, payload>>

\* #[tauri::command] hide_overlay: KillTimer, ShowWindow(SW_HIDE), demote_parent.
HideOverlay ==
    /\ OVERLAY_HWND # 0
    /\ timer' = FALSE
    /\ visible' = FALSE
    /\ DemoteParent
    /\ UNCHANGED <<wvars, lvars, app_handle, OVERLAY_HWND, windows, creator, foreground,
                   parent_origin, pos, main_queue, TICKS, hdrop, drops,
                   emitted, payload>>

-----------------------------------------------------------------------------
\* overlay_wnd_proc, run by the main thread for the stored overlay window.

\* What GetAsyncKeyState answers for a key (an i16): 0, the least significant
\* bit alone (the key is up and was pressed since the previous query), or the
\* most significant bit (the key is down now).
KeyStates == {0, 1, -32768}

\* The key is down at the time of the query.
IsDown(state) == state < 0

\* What one WM_TIMER reads: whether GetCursorPos answered and, when it did,
\* whether the cursor is within the owner's window rectangle and the states of
\* the left button, the right button and Escape; when it did not, the handler
\* reads nothing more.
Readings ==
    [ok : {TRUE}, inside : BOOLEAN, lbutton : KeyStates, rbutton : KeyStates,
     escape : KeyStates]
    \cup {[ok |-> FALSE, inside |-> FALSE, lbutton |-> 0, rbutton |-> 0, escape |-> 0]}

\* let is_esc_down = GetAsyncKeyState(VK_ESCAPE) != 0
IsEscDown(r) == r.escape # 0

\* A test that looks at the left button only.
IsAnyButtonDown_LeftOnly(r) == r.lbutton # 0

\* let is_any_button_down = GetAsyncKeyState(VK_LBUTTON) != 0
\*     || GetAsyncKeyState(VK_RBUTTON) != 0
IsAnyButtonDown(r) == r.lbutton # 0 \/ r.rbutton # 0

\* A tick that hides on Escape only.
WmTimerStep_EscOnly(r) ==
    /\ timer
    /\ TICKS < MaxTicks
    /\ TICKS' = TICKS + 1
    /\ IF r.ok /\ IsEscDown(r)
         THEN /\ timer' = FALSE
              /\ visible' = FALSE
              /\ DemoteParent
         ELSE UNCHANGED <<timer, visible, parent_z>>
    /\ UNCHANGED <<wvars, lvars, app_handle, OVERLAY_HWND, windows, creator, foreground,
                   parent_origin, pos, main_queue, hdrop, drops, emitted,
                   payload>>

\* WM_TIMER with the reading r: TICKS += 1; if GetCursorPos(&mut pt).is_ok()
\* { .. if !is_inside_app || !is_any_button_down || is_esc_down { KillTimer;
\* ShowWindow(SW_HIDE); demote_parent } }.
WmTimerStep(r) ==
    /\ timer
    /\ TICKS < MaxTicks
    /\ TICKS' = TICKS + 1
    /\ IF r.ok /\ (~r.inside \/ ~IsAnyButtonDown(r) \/ IsEscDown(r))
         THEN /\ timer' = FALSE
              /\ visible' = FALSE
              /\ DemoteParent
         ELSE UNCHANGED <<timer, visible, parent_z>>
    /\ UNCHANGED <<wvars, lvars, app_handle, OVERLAY_HWND, windows, creator, foreground,
                   parent_origin, pos, main_queue, hdrop, drops, emitted,
                   payload>>

WmTimer == \E r \in Readings : WmTimerStep(r)

\* A click that hides the window and leaves its timer and its owner alone.
WmLButtonDown_HideOnly ==
    /\ visible
    /\ visible' = FALSE
    /\ UNCHANGED <<wvars, lvars, app_handle, OVERLAY_HWND, windows, creator, timer,
                   parent_z, foreground, parent_origin, pos, main_queue, TICKS,
                   hdrop, drops, emitted, payload>>

\* WM_LBUTTONDOWN (a click on the shown overlay): KillTimer, ShowWindow(SW_HIDE),
\* demote_parent.
WmLButtonDown ==
    /\ visible
    /\ timer' = FALSE
    /\ visible' = FALSE
    /\ DemoteParent
    /\ UNCHANGED <<wvars, lvars, app_handle, OVERLAY_HWND, windows, creator, foreground,
                   parent_origin, pos, main_queue, TICKS, hdrop, drops, emitted,
                   payload>>

\* Files are dropped on the shown overlay: the Shell posts WM_DROPFILES with a
\* drop handle.
DragDrop ==
    /\ visible
    /\ hdrop = <<>>
    /\ drops < NumDrops
    /\ \E r \in Reports : hdrop' = <<r>>
    /\ UNCHANGED <<wvars, lvars, app_handle, OVERLAY_HWND, windows, creator, visible, timer,
                   parent_z, foreground, parent_origin, pos, main_queue, TICKS,
                   drops, emitted, payload>>

RECURSIVE Reverse(_)
Reverse(q) == IF q = <<>> THEN <<>> ELSE Append(Reverse(Tail(q)), Head(q))

\* A payload built newest first.
Extract_Reversed(report) == Reverse(SelectSeq(report, LAMBDA path : path # ""))

\* for i in 0..count { len = DragQueryFileW(hdrop, i, ..); if len > 0
\* { paths.push(path) } }
Extract(report) == SelectSeq(report, LAMBDA path : path # "")

\* WM_DROPFILES: the paths are read, DragFinish, the event is emitted to the
\* "main" window if APP_HANDLE is set (the owner of the overlay is that window),
\* then KillTimer, ShowWindow(SW_HIDE), bring_parent_to_foreground.
WmDropFiles ==
    /\ hdrop # <<>>
    /\ IF app_handle
         THEN /\ emitted' = emitted + 1
              /\ payload' = Extract(hdrop[1])
         ELSE UNCHANGED <<emitted, payload>>
    /\ hdrop' = <<>>
    /\ drops' = drops + 1
    /\ timer' = FALSE
    /\ visible' = FALSE
    /\ BringParentToForeground
    /\ UNCHANGED <<wvars, lvars, app_handle, OVERLAY_HWND, windows, creator, parent_origin,
                   pos, main_queue, TICKS>>

\* The user brings another window, or the owner, to the foreground.
UserActivates ==
    /\ foreground' = IF foreground = "parent" THEN "other" ELSE "parent"
    /\ UNCHANGED <<wvars, lvars, app_handle, OVERLAY_HWND, windows, creator, visible, timer,
                   parent_z, parent_origin, pos, main_queue, TICKS, hdrop, drops,
                   emitted, payload>>

-----------------------------------------------------------------------------
\* The one call lib.rs makes: drop_overlay::create_drop_overlay(whwnd) in setup.
SetupCreators == {1}

OverlayStep ==
    \/ \E parent \in BOOLEAN, rect \in RectOpts : ShowOverlay(parent, rect)
    \/ ShowOnMain
    \/ HideOverlay
    \/ WmTimer
    \/ WmLButtonDown
    \/ DragDrop
    \/ WmDropFiles
    \/ UserActivates

\* The steps of the overlay are followed without their history.
NoHistory == UNCHANGED <<stale, lbuttons>>

OverlayNext ==
    \/ Setup
    \/ (\E c \in SetupCreators : CreateDropOverlay(c)) /\ NoHistory
    \/ OverlayStep /\ NoHistory

\* The overlay as the program uses it: created once in setup, then shown,
\* hidden and dropped on.
SpecOverlay == Init /\ [][OverlayNext]_vars

CreateNext ==
    \/ Setup
    \/ (\E c \in Creators : CreateDropOverlay(c)) /\ NoHistory
    \/ HideOverlay /\ NoHistory
    \/ UserActivates /\ NoHistory

\* create_drop_overlay called from NumCreates threads, statement by statement.
SpecCreate == Init /\ [][CreateNext]_vars

\* The overlay with the history of its commands and messages: which closures
\* in the main thread's queue a hide_overlay call has overtaken, and the
\* WM_LBUTTONDOWN messages handled. show_overlay is called without a rectangle.
DismissNext ==
    \/ Setup
    \/ (\E c \in SetupCreators : CreateDropOverlay(c)) /\ NoHistory
    \/ (\E parent \in BOOLEAN : ShowOverlay(parent, <<>>)) /\ NoHistory
    \/ ShowOnMain /\ stale' = (IF stale > 0 THEN stale - 1 ELSE 0)
                  /\ UNCHANGED lbuttons
    \/ HideOverlay /\ stale' = Len(main_queue) /\ UNCHANGED lbuttons
    \/ WmTimer /\ NoHistory
    \/ WmLButtonDown /\ lbuttons' = 1 - lbuttons /\ UNCHANGED stale
    \/ DragDrop /\ NoHistory
    \/ WmDropFiles /\ NoHistory
    \/ UserActivates /\ NoHistory

SpecDismiss == Init /\ [][DismissNext]_vars

-----------------------------------------------------------------------------
\* Vocabulary of the overlay properties.

\* Armed: shown with its timer running. Hidden: not shown.
Armed == visible /\ timer
Hidden == ~visible

\* The step is the main thread running a show_overlay closure.
ShowClosureRuns == main_queue # <<>> /\ main_queue' = Tail(main_queue)

\* The step is the window procedure handling a WM_TIMER.
TimerHandled == TICKS' = TICKS + 1

\* The step is the window procedure handling a WM_DROPFILES.
DropHandled == drops' = drops + 1

\* At the time of the reading a mouse button is down; Escape is down.
ButtonHeld(r) == IsDown(r.lbutton) \/ IsDown(r.rbutton)
EscapeHeld(r) == IsDown(r.escape)

\* The paths a drop handle reports, in the order of their indices.
RECURSIVE ReportedPaths(_)
ReportedPaths(report) ==
    IF report = <<>> THEN <<>>
    ELSE IF Head(report) = "" THEN ReportedPaths(Tail(report))
    ELSE <<Head(report)>> \o ReportedPaths(Tail(report))

\* C15: a Hidden overlay becomes visible only in a step that runs the closure
\* of a show_overlay call: no timer tick, window message, drop or hide_overlay
\* call shows it.
C15_ShownOnlyByShowOverlay ==
    [][(Hidden /\ visible') => ShowClosureRuns]_vars

\* The overlay has been armed by a show_overlay call.
C15_Witness == Armed /\ OVERLAY_HWND # 0 /\ main_queue = <<>>

\* C16 (as stated): a WM_TIMER that reaches an Armed overlay after the mouse
\* button was released outside the owner's rectangle, or after Escape was
\* pressed, leaves the overlay Hidden with its timer stopped.
C16_TickHidesOnReleaseOrEscape ==
    [][(TimerHandled /\ Armed) =>
          \A r \in Readings :
              ((~ButtonHeld(r) /\ ~r.inside) \/ EscapeHeld(r))
                  => ((~visible' /\ ~timer') \/ ~WmTimerStep(r))]_vars

\* C16 (amended): a WM_TIMER that reaches an Armed overlay and can read the
\* cursor position (GetCursorPos succeeds), after the mouse button was released
\* outside the owner's rectangle or after Escape was pressed, leaves the overlay
\* Hidden with its timer stopped; a tick that cannot read the cursor position
\* changes nothing.
C16_ReadableTickHidesOnReleaseOrEscape ==
    [][(TimerHandled /\ Armed) =>
          \A r \in Readings :
              /\ (r.ok /\ ((~ButtonHeld(r) /\ ~r.inside) \/ EscapeHeld(r)))
                    => ((~visible' /\ ~timer') \/ ~WmTimerStep(r))
              /\ ~r.ok => ((visible' /\ timer') \/ ~WmTimerStep(r))]_vars

\* A first tick has hidden the overlay and put the owner behind the drag source.
C16_Witness ==
    /\ TICKS = 1
    /\ Hidden /\ ~timer
    /\ parent_z = "behind"
    /\ drops = 0

\* C17: the step that handles a file drop leaves the overlay Hidden, its timer
\* stopped, the owner window not topmost and the owner the foreground window.
C17_DropRestoresOwner ==
    [][DropHandled =>
          (~visible' /\ ~timer' /\ parent_z' = "normal" /\ foreground' = "parent")]_vars

\* A drop has been handled: the overlay is hidden and the owner is in front.
C17_Witness ==
    /\ drops = 1
    /\ hdrop = <<>>
    /\ Hidden /\ ~timer
    /\ parent_z = "normal"
    /\ foreground = "parent"

C19_SingleOverlayWindow ==
    /\ Cardinality(windows) <= 1
    /\ \A c, d \in Creators :
          (creator[c].ret > 0 /\ creator[d].ret > 0) => creator[c].ret = creator[d].ret

\* The closure that runs was given Some(r) with r.width > 0 and r.height > 0.
RunsWithRect(r) ==
    /\ ShowClosureRuns
    /\ Head(main_queue).rect = <<r>>
    /\ r.width > 0 /\ r.height > 0

\* The overlay is shown at the screen position of the owner's client point
\* (r.x, r.y), with the size of r.
PlacedAt(r) ==
    /\ visible'
    /\ pos' = [x |-> parent_origin.x + r.x, y |-> parent_origin.y + r.y,
               width |-> r.width, height |-> r.height]

\* C20: a show_overlay that is given a rectangle (x, y, w, h) with w > 0 and
\* h > 0 places the overlay at the owner's client origin in screen coordinates
\* (the transform is taken on the owner window, whose handle the call obtained)
\* plus (x, y), with size (w, h); a call that could not obtain the owner's
\* handle has no owner origin to add and shows the overlay where it was.
C20_RectPlacedInScreenSpace ==
    [][\A r \in OverlayRects :
          RunsWithRect(r) =>
              IF Head(main_queue).parent
                THEN PlacedAt(r)
                ELSE visible' /\ pos' = pos]_vars

\* The owner's client origin is at (10, 20) and the overlay, asked for the
\* rectangle (2, 1, 3, 2), is shown at (12, 21) with size (3, 2).
C20_Witness ==
    /\ visible
    /\ parent_origin = [x |-> 10, y |-> 20]
    /\ pos = [x |-> 12, y |-> 21, width |-> 3, height |-> 2]

-----------------------------------------------------------------------------
\* Archive extraction (extraction.rs).  Paths are sequences of components
\* below the target directory; fs maps each existing path to its kind, the
\* extraction that made it (0: another program) and, for a file, its length.

Min(a, b) == IF a < b THEN a ELSE b

SetExtract(x, r) == xt' = [xt EXCEPT ![x] = r]

Returns_Resume(x, tag, val) ==
    SetExtract(x, [xt[x] EXCEPT !.result = [tag |-> tag, val |-> val]])

\* return Err(msg) / return Ok(val) of extract_zip and extract_7z: what is left
\* is the tail of extract_archive.
Returns(x, tag, val) ==
    SetExtract(x, [xt[x] EXCEPT !.pc = "finish", !.result = [tag |-> tag, val |-> val]])

\* A call the operating system or the archive library may fail: it succeeds
\* when it can, or fails because it cannot, or is one of the MaxFaults failures
\* of a call that could have succeeded.
Outcome(ok, can) ==
    /\ ok => can
    /\ IF ok \/ ~can THEN faults' = faults
       ELSE faults < MaxFaults /\ faults' = faults + 1

\* str::to_lowercase on the extensions above.
ToLowercase(ext) == IF ext = "ZIP" THEN "zip" ELSE ext

Prefixes(p) == {SubSeq(p, 1, n) : n \in 1..Len(p)}
IsPrefix(d, p) == Len(d) <= Len(p) /\ SubSeq(p, 1, Len(d)) = d

\* fs::create_dir_all(p): fails when a component is a file; makes what is missing.
CanCreateDirAll(f, p) == \A q \in Prefixes(p) : q \in DOMAIN f => f[q].kind = "dir"
CreateDirAll(f, p, x) ==
    [q \in DOMAIN f \cup Prefixes(p) |->
        IF q \in DOMAIN f THEN f[q] ELSE [kind |-> "dir", by |-> x, len |-> 0]]

\* fs::File::create(p): fails on a directory; makes or truncates the file.
CanCreateFile(f, p) == p \in DOMAIN f => f[p].kind = "file"
CreateFile(f, p, x) == (p :> [kind |-> "file", by |-> x, len |-> 0]) @@ f

\* write_all(&buf[..n]) on the open file.
WriteAll(f, p, n) == [f EXCEPT ![p].len = @ + n]

\* fs::rename(from, to) of a directory: fails when `to` exists.
Rename(f, from, to) ==
    LET moved == {p \in DOMAIN f : IsPrefix(from, p)}
        NewPath(p) == to \o SubSeq(p, Len(from) + 1, Len(p))
    IN  [q \in (DOMAIN f \ moved) \cup {NewPath(p) : p \in moved} |->
            IF \E p \in moved : NewPath(p) = q
            THEN f[CHOOSE p \in moved : NewPath(p) = q]
            ELSE f[q]]

\* fs::remove_dir(d) of an empty directory.
RemoveDir(f, d) == [q \in DOMAIN f \ {d} |-> f[q]]

\* format!("{} ({})", name, counter)
Candidate(name, counter) == name \o " (" \o ToString(counter) \o ")"

FirstFree_Stem(parent, name, counter) == name

RECURSIVE FirstFree(_, _, _)
\* The loop of get_unique_dir.
FirstFree(parent, name, counter) ==
    IF <<Candidate(name, counter)>> \notin DOMAIN parent
    THEN Candidate(name, counter)
    ELSE FirstFree(parent, name, counter + 1)

GetUniqueDir_FromThree(parent, name) ==
    IF <<name>> \notin DOMAIN parent THEN name ELSE FirstFree(parent, name, 3)

\* get_unique_dir(parent, name), parent being what the directory holds.
GetUniqueDir(parent, name) ==
    IF <<name>> \notin DOMAIN parent THEN name ELSE FirstFree(parent, name, 2)

\* name.find('/') is Some
HasSlash(e) == Len(e.name) >= 2 \/ e.dir

\* get_zip_single_root: <<>> for None, <<root>> for Some("root/").
GetZipSingleRoot(entries) ==
    LET root_entries == {entries[i].name[1] : i \in 1..Len(entries)}
    IN  IF Len(entries) = 0 THEN <<>>
        ELSE IF \E i \in 1..Len(entries) : ~HasSlash(entries[i]) THEN <<>>
        ELSE IF Cardinality(root_entries) = 1 THEN <<CHOOSE r \in root_entries : TRUE>>
        ELSE <<>>

RelativePath_Keep(e, single_root) == e.name

\* entry_name.strip_prefix(root).unwrap_or(&entry_name), or the name when there
\* is no single root.
RelativePath(e, single_root) ==
    IF single_root # <<>> /\ HasSlash(e) /\ e.name[1] = single_root[1]
    THEN Tail(e.name)
    ELSE e.name

\* ((bytes_written as f64 / total_bytes as f64) * 100.0).min(100.0) as u32; the
\* quotients of the sizes above are exact in f64 or far from a whole percent.
Pct(bytes_written, total_bytes) == Min((bytes_written * 100) \div total_bytes, 100)

ReportProgress_NoSkip(t, current_file) ==
    IF t.total_bytes = 0 THEN t
    ELSE LET pct == Pct(t.bytes_written, t.total_bytes)
         IN  [t EXCEPT !.last_pct = pct, !.bar = pct,
                       !.events = Append(@, [percentage |-> pct,
                                             current_file |-> current_file])]

\* report_progress(window, &mut last_pct, bytes_written, total_bytes, current_file)
ReportProgress(t, current_file) ==
    IF t.total_bytes = 0 THEN t
    ELSE LET pct == Pct(t.bytes_written, t.total_bytes)
         IN  IF pct <= t.last_pct THEN t
             ELSE [t EXCEPT !.last_pct = pct, !.bar = pct,
                            !.events = Append(@, [percentage |-> pct,
                                                  current_file |-> current_file])]

\* The throttled update inside the closure of extract_7z.
SevenProgress(t, entry_name) ==
    LET pct == Pct(t.bytes_written, t.total_bytes)
    IN  IF pct > t.last_pct
        THEN [t EXCEPT !.last_pct = pct, !.bar = pct,
                       !.events = Append(@, [percentage |-> pct,
                                             current_file |-> entry_name])]
        ELSE t

RECURSIVE SumSizes(_)
SumSizes(entries) ==
    IF entries = <<>> THEN 0 ELSE Head(entries).size + SumSizes(Tail(entries))

ArchiveOf(x) == Archives[xt[x].archive]
EntriesOf(x) == ArchiveOf(x).entries
OutputPath(x) == <<xt[x].output_dir>>

\* What entry.read(&mut buf) may return while bytes are left.
ReadSizes(t) == {t.left} \cup (IF t.left > 1 /\ t.short < MaxShortReads THEN {1} ELSE {})

\* extract_archive up to the match on the extension.
ExtractArchive(x, a) ==
    /\ app_handle
    /\ xt[x].pc = "idle"
    /\ LET ext == ToLowercase(Archives[a].ext)
           t == [xt[x] EXCEPT !.archive = a]
       IN  SetExtract(x,
             IF ext = "zip" THEN [t EXCEPT !.pc = "z_open"]
             ELSE IF ext = "7z" THEN [t EXCEPT !.pc = "s_unique"]
             ELSE [t EXCEPT !.pc = "finish",
                            !.result = [tag |-> "Err", val |-> "Unsupported archive format"]])
    /\ UNCHANGED <<wvars, ovars, cvars, app_handle, fs, faults>>

ZipOpen_NoEmptyCheck(x) ==
    /\ xt[x].pc = "z_open"
    /\ \E r \in {"ok", "Failed to open archive", "Failed to read ZIP archive"} :
         /\ Outcome(r = "ok", TRUE)
         /\ IF r # "ok" THEN Returns(x, "Err", r)
            ELSE SetExtract(x, [xt[x] EXCEPT !.pc = "z_unique",
                                             !.total_bytes = SumSizes(EntriesOf(x))])
    /\ UNCHANGED <<wvars, ovars, cvars, app_handle, fs>>

\* extract_zip: File::open, ZipArchive::new, the empty check and the pre-scan.
ZipOpen(x) ==
    /\ xt[x].pc = "z_open"
    /\ \E r \in {"ok", "Failed to open archive", "Failed to read ZIP archive"} :
         /\ Outcome(r = "ok", TRUE)
         /\ IF r # "ok" THEN Returns(x, "Err", r)
            ELSE IF Len(EntriesOf(x)) = 0 THEN Returns(x, "Err", "Archive is empty")
            ELSE SetExtract(x, [xt[x] EXCEPT !.pc = "z_unique",
                                             !.total_bytes = SumSizes(EntriesOf(x))])
    /\ UNCHANGED <<wvars, ovars, cvars, app_handle, fs>>

\* determine_output_dir (ZIP) and the first statement of extract_7z.
DetermineOutputDir(x) ==
    /\ xt[x].pc \in {"z_unique", "s_unique"}
    /\ SetExtract(x, [xt[x] EXCEPT
            !.pc = IF @ = "z_unique" THEN "z_mkdir" ELSE "s_mkdir",
            !.output_dir = GetUniqueDir(fs, ArchiveOf(x).stem)])
    /\ UNCHANGED <<wvars, ovars, cvars, app_handle, fs, faults>>

\* fs::create_dir_all(&output_dir), and for ZIP get_zip_single_root after it.
CreateOutputDir(x) ==
    /\ xt[x].pc \in {"z_mkdir", "s_mkdir"}
    /\ \E ok \in BOOLEAN :
         /\ Outcome(ok, CanCreateDirAll(fs, OutputPath(x)))
         /\ IF ok
            THEN /\ fs' = CreateDirAll(fs, OutputPath(x), x)
                 /\ SetExtract(x,
                      IF xt[x].pc = "z_mkdir"
                      THEN [xt[x] EXCEPT !.pc = "z_entry", !.i = 1,
                                         !.single_root = GetZipSingleRoot(EntriesOf(x))]
                      ELSE [xt[x] EXCEPT !.pc = "s_open"])
            ELSE /\ Returns(x, "Err", "Failed to create output directory")
                 /\ UNCHANGED fs
    /\ UNCHANGED <<wvars, ovars, cvars, app_handle>>

\* One pass of `for i in 0..archive.len()` of extract_zip up to the copy loop,
\* or the Ok(output_dir) after the last pass.
ZipEntry(x) ==
    /\ xt[x].pc = "z_entry"
    /\ IF xt[x].i > Len(EntriesOf(x))
       THEN /\ Returns(x, "Ok", xt[x].output_dir)
            /\ UNCHANGED <<fs, faults>>
       ELSE LET e == EntriesOf(x)[xt[x].i]
                relative_path == RelativePath(e, xt[x].single_root)
                out_path == OutputPath(x) \o relative_path
                parent == SubSeq(out_path, 1, Len(out_path) - 1)
                next == [xt[x] EXCEPT !.i = @ + 1]
            IN  \E r \in {"ok", "Failed to read entry", "Failed to create directory",
                          "Failed to create parent dir", "Failed to create file"} :
                  \/ /\ r = "Failed to read entry"
                     /\ Outcome(FALSE, TRUE)
                     /\ Returns(x, "Err", r)
                     /\ UNCHANGED fs
                  \/ /\ r = "ok" /\ relative_path = <<>>
                     /\ SetExtract(x, next)
                     /\ UNCHANGED <<fs, faults>>
                  \/ /\ relative_path # <<>> /\ e.dir
                     /\ r \in {"ok", "Failed to create directory"}
                     /\ Outcome(r = "ok", CanCreateDirAll(fs, out_path))
                     /\ IF r = "ok"
                        THEN fs' = CreateDirAll(fs, out_path, x) /\ SetExtract(x, next)
                        ELSE UNCHANGED fs /\ Returns(x, "Err", r)
                  \/ /\ relative_path # <<>> /\ ~e.dir
                     /\ r = "Failed to create parent dir"
                     /\ Outcome(FALSE, CanCreateDirAll(fs, parent))
                     /\ Returns(x, "Err", r)
                     /\ UNCHANGED fs
                  \/ /\ relative_path # <<>> /\ ~e.dir
                     /\ r \in {"ok", "Failed to create file"}
                     /\ CanCreateDirAll(fs, parent)
                     /\ Outcome(r = "ok", CanCreateFile(fs, out_path))
                     /\ IF r = "ok"
                        THEN /\ fs' = CreateFile(CreateDirAll(fs, parent, x), out_path, x)
                             /\ SetExtract(x, [xt[x] EXCEPT !.pc = "z_copy", !.left = e.size, !.short = 0,
                                                            !.out_path = out_path])
                        ELSE /\ fs' = CreateDirAll(fs, parent, x)
                             /\ Returns(x, "Err", r)
    /\ UNCHANGED <<wvars, ovars, cvars, app_handle>>

\* One pass of the copy loop of extract_zip: read, write_all, report_progress.
ZipCopy(x) ==
    /\ xt[x].pc = "z_copy"
    /\ \E r \in {"ok", "Failed to read from archive", "Failed to write file"} :
         \/ /\ r = "Failed to read from archive"
            /\ Outcome(FALSE, TRUE)
            /\ Returns(x, "Err", r)
            /\ UNCHANGED fs
         \/ /\ r = "ok" /\ xt[x].left = 0
            /\ SetExtract(x, [xt[x] EXCEPT !.pc = "z_entry", !.i = @ + 1, !.out_path = <<>>])
            /\ UNCHANGED <<fs, faults>>
         \/ /\ r = "Failed to write file" /\ xt[x].left > 0
            /\ Outcome(FALSE, TRUE)
            /\ Returns(x, "Err", r)
            /\ UNCHANGED fs
         \/ /\ r = "ok" /\ xt[x].left > 0
            /\ \E n \in ReadSizes(xt[x]) :
                 /\ fs' = WriteAll(fs, xt[x].out_path, n)
                 /\ SetExtract(x, ReportProgress(
                        [xt[x] EXCEPT !.left = @ - n, !.bytes_written = @ + n,
                                      !.short = IF n < xt[x].left THEN @ + 1 ELSE @],
                        EntriesOf(x)[xt[x].i].name))
            /\ UNCHANGED faults
    /\ UNCHANGED <<wvars, ovars, cvars, app_handle>>

\* extract_7z: File::open, metadata, SevenZReader::new, the total and the
\* empty check.
SevenOpen(x) ==
    /\ xt[x].pc = "s_open"
    /\ \E r \in {"ok", "Failed to open 7z", "Failed to get 7z metadata", "Failed to read 7z"} :
         /\ Outcome(r = "ok", TRUE)
         /\ IF r # "ok" THEN Returns(x, "Err", r)
            ELSE IF SumSizes(EntriesOf(x)) = 0 THEN Returns(x, "Err", "Archive is empty")
            ELSE SetExtract(x, [xt[x] EXCEPT !.pc = "s_entry", !.i = 1,
                                             !.total_bytes = SumSizes(EntriesOf(x))])
    /\ UNCHANGED <<wvars, ovars, cvars, app_handle, fs>>

\* decompress_file_with_extract_fn: the closure of extract_7z on the next
\* entry, up to its copy loop; after the last entry, on to the flattening.
SevenEntry(x) ==
    /\ xt[x].pc = "s_entry"
    /\ IF xt[x].i > Len(EntriesOf(x))
       THEN /\ SetExtract(x, [xt[x] EXCEPT !.pc = "s_flatten"])
            /\ UNCHANGED <<fs, faults>>
       ELSE LET e == EntriesOf(x)[xt[x].i]
                out_path == OutputPath(x) \o e.name
                parent == SubSeq(out_path, 1, Len(out_path) - 1)
                next == [xt[x] EXCEPT !.i = @ + 1]
            IN  \E r \in {"ok", "read", "dir", "parent", "file"} :
                  \/ /\ r = "read"
                     /\ Outcome(FALSE, TRUE)
                     /\ Returns(x, "Err", "Failed to extract 7Z archive")
                     /\ UNCHANGED fs
                  \/ /\ e.dir /\ r \in {"ok", "dir"}
                     /\ Outcome(r = "ok", CanCreateDirAll(fs, out_path))
                     /\ fs' = IF r = "ok" THEN CreateDirAll(fs, out_path, x) ELSE fs
                     /\ SetExtract(x, next)
                  \/ /\ ~e.dir /\ r = "parent"
                     /\ Outcome(FALSE, CanCreateDirAll(fs, parent))
                     /\ Returns(x, "Err", "Failed to extract 7Z archive")
                     /\ UNCHANGED fs
                  \/ /\ ~e.dir /\ r \in {"ok", "file"}
                     /\ CanCreateDirAll(fs, parent)
                     /\ Outcome(r = "ok", CanCreateFile(fs, out_path))
                     /\ IF r = "ok"
                        THEN /\ fs' = CreateFile(CreateDirAll(fs, parent, x), out_path, x)
                             /\ SetExtract(x, [xt[x] EXCEPT !.pc = "s_copy", !.left = e.size, !.short = 0,
                                                            !.out_path = out_path])
                        ELSE /\ fs' = CreateDirAll(fs, parent, x)
                             /\ Returns(x, "Err", "Failed to extract 7Z archive")
    /\ UNCHANGED <<wvars, ovars, cvars, app_handle>>

\* One pass of the copy loop inside the closure of extract_7z.
SevenCopy(x) ==
    /\ xt[x].pc = "s_copy"
    /\ \E r \in {"ok", "read", "write"} :
         \/ /\ r = "read"
            /\ Outcome(FALSE, TRUE)
            /\ Returns(x, "Err", "Failed to extract 7Z archive")
            /\ UNCHANGED fs
         \/ /\ r = "ok" /\ xt[x].left = 0
            /\ SetExtract(x, [xt[x] EXCEPT !.pc = "s_entry", !.i = @ + 1, !.out_path = <<>>])
            /\ UNCHANGED <<fs, faults>>
         \/ /\ r = "write" /\ xt[x].left > 0
            /\ Outcome(FALSE, TRUE)
            /\ Returns(x, "Err", "Failed to extract 7Z archive")
            /\ UNCHANGED fs
         \/ /\ r = "ok" /\ xt[x].left > 0
            /\ \E n \in ReadSizes(xt[x]) :
                 /\ fs' = WriteAll(fs, xt[x].out_path, n)
                 /\ SetExtract(x, SevenProgress(
                        [xt[x] EXCEPT !.left = @ - n, !.bytes_written = @ + n,
                                      !.short = IF n < xt[x].left THEN @ + 1 ELSE @],
                        EntriesOf(x)[xt[x].i].name))
            /\ UNCHANGED faults
    /\ UNCHANGED <<wvars, ovars, cvars, app_handle>>

\* format!("__flatten_temp_{}", std::process::id()) next to the output directory.
TempPath == <<"__flatten_temp_pid">>

\* A swap that stops at the temporary name.
FlattenSingleChildDir_NoRestore(x) ==
    /\ xt[x].pc = "s_flatten"
    /\ LET dir == OutputPath(x)
           entries == {p \in DOMAIN fs : Len(p) = 2 /\ IsPrefix(dir, p)}
           child_dir == CHOOSE p \in entries : TRUE
           moved == Rename(fs, child_dir, TempPath)
           removed == RemoveDir(moved, dir)
       IN  \E r \in {"ok", "Failed to read dir", "Failed to move child dir",
                     "Failed to remove empty dir", "Failed to restore flattened dir"} :
             \/ /\ r = "Failed to read dir"
                /\ Outcome(FALSE, TRUE)
                /\ Returns(x, "Err", r)
                /\ UNCHANGED fs
             \/ /\ r = "ok"
                /\ ~(Cardinality(entries) = 1 /\ fs[child_dir].kind = "dir")
                /\ Returns(x, "Ok", xt[x].output_dir)
                /\ UNCHANGED <<fs, faults>>
             \/ /\ r # "Failed to read dir"
                /\ Cardinality(entries) = 1 /\ fs[child_dir].kind = "dir"
                /\ r # "Failed to move child dir" => TempPath \notin DOMAIN fs
                /\ Outcome(r = "ok", TempPath \notin DOMAIN fs)
                /\ fs' = CASE r = "ok" -> removed
                           [] r = "Failed to move child dir" -> fs
                           [] r = "Failed to remove empty dir" -> moved
                           [] r = "Failed to restore flattened dir" -> removed
                /\ IF r = "ok" THEN Returns(x, "Ok", xt[x].output_dir)
                   ELSE Returns(x, "Err", r)
    /\ UNCHANGED <<wvars, ovars, cvars, app_handle>>

\* flatten_single_child_dir(&output_dir) and the Ok(output_dir) after it.
FlattenSingleChildDir(x) ==
    /\ xt[x].pc = "s_flatten"
    /\ LET dir == OutputPath(x)
           entries == {p \in DOMAIN fs : Len(p) = 2 /\ IsPrefix(dir, p)}
           child_dir == CHOOSE p \in entries : TRUE
           moved == Rename(fs, child_dir, TempPath)
           removed == RemoveDir(moved, dir)
       IN  \E r \in {"ok", "Failed to read dir", "Failed to move child dir",
                     "Failed to remove empty dir", "Failed to restore flattened dir"} :
             \/ /\ r = "Failed to read dir"
                /\ Outcome(FALSE, TRUE)
                /\ Returns(x, "Err", r)
                /\ UNCHANGED fs
             \/ /\ r = "ok"
                /\ ~(Cardinality(entries) = 1 /\ fs[child_dir].kind = "dir")
                /\ Returns(x, "Ok", xt[x].output_dir)
                /\ UNCHANGED <<fs, faults>>
             \/ /\ r # "Failed to read dir"
                /\ Cardinality(entries) = 1 /\ fs[child_dir].kind = "dir"
                /\ r # "Failed to move child dir" => TempPath \notin DOMAIN fs
                /\ Outcome(r = "ok", TempPath \notin DOMAIN fs)
                /\ fs' = CASE r = "ok" -> Rename(removed, TempPath, dir)
                           [] r = "Failed to move child dir" -> fs
                           [] r = "Failed to remove empty dir" -> moved
                           [] r = "Failed to restore flattened dir" -> removed
                /\ IF r = "ok" THEN Returns(x, "Ok", xt[x].output_dir)
                   ELSE Returns(x, "Err", r)
    /\ UNCHANGED <<wvars, ovars, cvars, app_handle>>

\* The tail of extract_archive: the bar at 100, the sleep, the bar reset, and
\* the result handed back; the locals of the call are gone.
ExtractFinish(x) ==
    /\ xt[x].pc = "finish"
    /\ SetExtract(x, [IdleExtract EXCEPT !.pc = "done", !.archive = xt[x].archive,
                                         !.result = xt[x].result])
    /\ UNCHANGED <<wvars, ovars, cvars, app_handle, fs, faults>>

\* The names another program may give a directory it makes in the target.
ForeignNames == {"ar", "ar (2)"}

\* Another program makes a directory in the target directory.
OtherProgramCreates(name) ==
    /\ <<name>> \notin DOMAIN fs
    /\ Cardinality({p \in DOMAIN fs : fs[p].by = 0}) < MaxForeign
    /\ fs' = CreateDirAll(fs, <<name>>, 0)
    /\ UNCHANGED <<wvars, ovars, cvars, app_handle, xt, faults>>

ExtractStep(x) ==
    \/ ZipOpen(x)
    \/ DetermineOutputDir(x)
    \/ CreateOutputDir(x)
    \/ ZipEntry(x)
    \/ ZipCopy(x)
    \/ SevenOpen(x)
    \/ SevenEntry(x)
    \/ SevenCopy(x)
    \/ FlattenSingleChildDir(x)
    \/ ExtractFinish(x)

\* No extraction is between its start and its return.
Quiet == \A x \in Extractions : xt[x].pc \in {"idle", "done"}

\* The user extracts an archive, and once that has returned extracts the same
\* archive again.
StartNext ==
    \E x \in Extractions, a \in 1..Len(Archives) :
        /\ Quiet
        /\ \A y \in 1..(x - 1) : xt[y].pc = "done" /\ xt[y].archive = a
        /\ ExtractArchive(x, a)

ExtractNext ==
    \/ Setup
    \/ StartNext
    \/ \E x \in Extractions : ExtractStep(x)
    \/ \E name \in ForeignNames : Quiet /\ OtherProgramCreates(name)

\* One archive extracted NumExtracts times, one extraction after another, into
\* one target directory that other programs change only between them.
SpecExtract == Init /\ [][ExtractNext]_vars

\* extract_archive is an async command whose work runs in spawn_blocking: a
\* second invocation starts on another thread of the blocking pool while the
\* first is anywhere between its start and its return.
ConcurrentNext ==
    \/ Setup
    \/ \E x \in Extractions, a \in 1..Len(Archives) : ExtractArchive(x, a)
    \/ \E x \in Extractions : ExtractStep(x)

\* NumExtracts extractions into one target directory, their statements
\* interleaved as the threads of the blocking pool may interleave them.
SpecConcurrent == Init /\ [][ConcurrentNext]_vars

-----------------------------------------------------------------------------
\* The clipboard and SHFileOperationW commands of lib.rs.  They are synchronous
\* tauri commands: the main thread runs them one at a time, while other
\* programs use the clipboard.

\* The main thread is free to run a command, and one more is followed.
Invocable ==
    /\ app_handle
    /\ gci.pc = "idle" /\ shell.pc = "idle"
    /\ n_lib < NumLibCalls

\* Another program opens the clipboard (OpenClipboard).
OtherProgramOpens ==
    /\ ~clip.open
    /\ clip' = [clip EXCEPT !.open = TRUE]
    /\ UNCHANGED <<wvars, ovars, xvars, app_handle, folder, changes, cache, gci, shell, n_lib>>

\* The program that holds the clipboard open replaces its content: the
\* sequence number GetClipboardSequenceNumber reports goes up.
ClipboardChanges(c) ==
    /\ clip.open
    /\ changes < MaxChanges
    /\ c # clip.content
    /\ clip' = [clip EXCEPT !.seq = @ + 1, !.content = c]
    /\ changes' = changes + 1
    /\ UNCHANGED <<wvars, ovars, xvars, app_handle, folder, cache, gci, shell, n_lib>>

\* It closes the clipboard (CloseClipboard).
OtherProgramCloses ==
    /\ clip.open
    /\ clip' = [clip EXCEPT !.open = FALSE]
    /\ UNCHANGED <<wvars, ovars, xvars, app_handle, folder, changes, cache, gci, shell, n_lib>>

\* get_clipboard_info up to the cache check: the answer from the cache when the
\* cached sequence number is the one just read.
GciBegin ==
    /\ Invocable
    /\ n_lib' = n_lib + 1
    /\ LET seq == clip.seq
       IN  gci' = IF cache # <<>> /\ cache[1].seq = seq
                  THEN [pc |-> "idle", at |-> n_lib + 1, seq |-> seq, hit |-> TRUE,
                        ret |-> <<cache[1].info>>]
                  ELSE [pc |-> "read", at |-> n_lib + 1, seq |-> seq, hit |-> FALSE,
                        ret |-> <<>>]
    /\ UNCHANGED <<wvars, ovars, xvars, app_handle, folder, clip, changes, cache, shell>>

\* Step 1 of get_clipboard_info: (paths, is_cut, dib_bytes); Clipboard::new()
\* fails while another program holds the clipboard open, and the three stay empty.
RawData(c) ==
    IF c.open THEN [paths |-> <<>>, is_cut |-> FALSE, dib |-> FALSE]
    ELSE LET content == Contents[c.content]
         IN  [paths |-> [i \in 1..Len(content.files) |-> FileName(content.files[i])],
              is_cut |-> content.files # <<>> /\ content.effect = 2,
              dib |-> content.dib]

\* The extensions get_clipboard_info asks a shell thumbnail for.
ImageExts == {"png", "jpg", "jpeg", "bmp", "webp", "gif"}

\* Step 2 of get_clipboard_info; thumb: generate_shell_thumbnail answered Ok.
InfoFrom(raw, first, thumb) ==
    IF raw.paths # <<>>
    THEN [has_files |-> TRUE, paths |-> raw.paths, is_cut |-> raw.is_cut,
          file_count |-> Len(raw.paths),
          has_image |-> /\ Len(raw.paths) = 1
                        /\ first.ext # <<>> /\ first.ext[1] \in ImageExts
                        /\ thumb]
    ELSE IF raw.dib THEN [EmptyInfo EXCEPT !.has_image = TRUE]
    ELSE EmptyInfo

\* The rest of get_clipboard_info after a cache miss: read the clipboard, build
\* the info, store (seq, info) in the cache and return it.
GciRead(thumb) ==
    /\ gci.pc = "read"
    /\ LET raw == RawData(clip)
           first == IF raw.paths = <<>> THEN Notes ELSE Contents[clip.content].files[1]
           info == InfoFrom(raw, first, thumb)
       IN  /\ cache' = <<[seq |-> gci.seq, info |-> info]>>
           /\ gci' = [gci EXCEPT !.pc = "idle", !.ret = <<info>>]
    /\ UNCHANGED <<wvars, ovars, xvars, app_handle, folder, clip, changes, shell, n_lib>>

\* What SHFileOperationW leaves behind: its return value, fAnyOperationsAborted
\* and whether the user cancelled in the dialog (a cancel is reported as 0 with
\* the flag set, or as ERROR_CANCELLED).
ShOutcomes ==
    {[code |-> 0, aborted |-> FALSE, user |-> "none"],
     [code |-> 0, aborted |-> TRUE, user |-> "cancel"],
     [code |-> 1223, aborted |-> TRUE, user |-> "cancel"],
     [code |-> 2, aborted |-> FALSE, user |-> "none"]}

Ran(cmd, o, result, pasted) ==
    [cmd |-> cmd, at |-> n_lib + 1, pc |-> "idle", code |-> o.code, aborted |-> o.aborted,
     user |-> o.user, result |-> result, pasted |-> pasted]

Err(msg) == [tag |-> "Err", val |-> msg]
Ok == [tag |-> "Ok", val |-> ""]

\* delete_item(path)
DeleteItem(path, o) ==
    /\ Invocable
    /\ n_lib' = n_lib + 1
    /\ shell' = Ran("delete_item", o,
                    IF o.code # 0 THEN Err("Windows Delete failed with code")
                    ELSE IF o.aborted THEN Err("Deletion aborted by user")
                    ELSE Ok, <<>>)
    /\ folder' = IF o.code = 0 /\ ~o.aborted THEN folder \ {path} ELSE folder
    /\ UNCHANGED <<wvars, ovars, xvars, app_handle, clip, changes, cache, gci>>

\* rename_item(old_path, new_name)
RenameItem(old_path, new_name, o) ==
    /\ Invocable
    /\ n_lib' = n_lib + 1
    /\ LET none == [code |-> 0, aborted |-> FALSE, user |-> "none"]
       IN  IF old_path \notin folder
           THEN /\ o = none
                /\ shell' = Ran("rename_item", o, Err("The file or folder does not exist"), <<>>)
                /\ UNCHANGED folder
           ELSE IF new_name \in folder
           THEN /\ o = none
                /\ shell' = Ran("rename_item", o,
                                Err("An item with the same name already exists"), <<>>)
                /\ UNCHANGED folder
           ELSE /\ shell' = Ran("rename_item", o,
                                IF o.code # 0 THEN Err("Windows Rename failed with code")
                                ELSE IF o.aborted THEN Err("Rename aborted by user")
                                ELSE Ok, <<>>)
                /\ folder' = IF o.code = 0 /\ ~o.aborted
                             THEN (folder \ {old_path}) \cup {new_name} ELSE folder
    /\ UNCHANGED <<wvars, ovars, xvars, app_handle, clip, changes, cache, gci>>

\* delete_items(paths, silent)
DeleteItems(paths, silent, o) ==
    /\ Invocable
    /\ n_lib' = n_lib + 1
    /\ shell' = Ran("delete_items", o,
                    IF o.code # 0 THEN Err("Windows Bulk Delete failed with code")
                    ELSE Ok, <<>>)
    /\ folder' = IF o.code = 0 /\ ~o.aborted THEN folder \ paths ELSE folder
    /\ UNCHANGED <<wvars, ovars, xvars, app_handle, clip, changes, cache, gci>>

\* format!(".{}", e) of the extension, or "" (unwrap_or_default).
Extension(n) == IF n.ext = <<>> THEN "" ELSE "." \o n.ext[1]

\* format!("{} - Copia ({}){}", stem, count, extension)
CountedName(n, count) ==
    n.stem \o " - Copia (" \o ToString(count) \o ")" \o Extension(n)

RECURSIVE NextCounted(_, _, _)
\* The loop of get_next_available_path.
NextCounted(names, n, count) ==
    IF CountedName(n, count) \notin names THEN CountedName(n, count)
    ELSE NextCounted(names, n, count + 1)

GetNextAvailablePath_FromOne(names, n) ==
    IF FileName(n) \notin names THEN FileName(n)
    ELSE NextCounted(names, n, 1)

\* get_next_available_path(target_dir, original_name): names is what
\* target_dir holds, n the name as the path functions take it apart.
GetNextAvailablePath(names, n) ==
    IF FileName(n) \notin names THEN FileName(n)
    ELSE IF n.stem \o " - Copia" \o Extension(n) \notin names
         THEN n.stem \o " - Copia" \o Extension(n)
    ELSE NextCounted(names, n, 2)

\* paste_items(target_path) up to the return of SHFileOperationW.  The file
\* list cannot be read while another program holds the clipboard.
PasteItemsBegin(o) ==
    /\ Invocable
    /\ n_lib' = n_lib + 1
    /\ LET content == Contents[clip.content]
           paths == IF clip.open THEN <<>> ELSE content.files
           pasted_paths == [i \in 1..Len(paths) |-> GetNextAvailablePath(folder, paths[i])]
           sources == {FileName(paths[i]) : i \in 1..Len(paths)}
           done == o.code = 0 /\ ~o.aborted
       IN  IF paths = <<>>
           THEN /\ o = [code |-> 0, aborted |-> FALSE, user |-> "none"]
                /\ shell' = Ran("paste_items", o, Err("Clipboard is empty"), <<>>)
                /\ UNCHANGED folder
           ELSE /\ done => sources \subseteq folder
                /\ shell' = IF o.code # 0
                            THEN Ran("paste_items", o,
                                     Err("Windows Copy/Move failed with code"), pasted_paths)
                            ELSE [Ran("paste_items", o, NoOutcome, pasted_paths)
                                    EXCEPT !.pc = "clearing"]
                /\ folder' = IF ~done THEN folder
                             ELSE IF content.effect = 2
                             THEN (folder \ sources) \cup {pasted_paths[i] : i \in 1..Len(paths)}
                             ELSE folder \cup {pasted_paths[i] : i \in 1..Len(paths)}
    /\ UNCHANGED <<wvars, ovars, xvars, app_handle, clip, changes, cache, gci>>

\* The end of paste_items: up to ten attempts to empty the clipboard, which
\* fail while another program holds it, then Ok(pasted_paths).
PasteItemsClear ==
    /\ shell.pc = "clearing"
    /\ clip' = IF clip.open THEN clip
               ELSE [clip EXCEPT !.seq = @ + 1, !.content = 1]
    /\ shell' = [shell EXCEPT !.pc = "idle", !.result = Ok]
    /\ UNCHANGED <<wvars, ovars, xvars, app_handle, folder, changes, cache, gci, n_lib>>

\* The names rename_item is given for the new name.
NewNames == {"renamed", FileName(Notes)}

LibNext ==
    \/ Setup
    \/ OtherProgramOpens
    \/ \E c \in 1..Len(Contents) : ClipboardChanges(c)
    \/ OtherProgramCloses
    \/ GciBegin
    \/ \E thumb \in BOOLEAN : GciRead(thumb)
    \/ \E path \in folder, o \in ShOutcomes : DeleteItem(path, o)
    \/ \E old_path \in folder, new_name \in NewNames, o \in ShOutcomes :
          RenameItem(old_path, new_name, o)
    \/ \E paths \in {{path} : path \in folder} \cup {folder}, silent \in BOOLEAN,
          o \in ShOutcomes : DeleteItems(paths, silent, o)
    \/ \E o \in ShOutcomes : PasteItemsBegin(o)
    \/ PasteItemsClear

\* The lib.rs commands on the main thread and the other programs that use the
\* clipboard.
SpecLib == Init /\ [][LibNext]_vars

-----------------------------------------------------------------------------
\* Vocabulary of the extraction claims.

\* Extraction x takes its get_unique_dir step.
Chooses(x) ==
    xt[x].pc \in {"z_unique", "s_unique"} /\ xt'[x].pc \in {"z_mkdir", "s_mkdir"}

\* Extraction x takes its create_dir_all(&output_dir) step and goes on.
MakesOutputDir(x) ==
    xt[x].pc \in {"z_mkdir", "s_mkdir"} /\ xt'[x].pc \in {"z_entry", "s_open"}

\* Extraction x is unpacking a ZIP archive.
InZip(x) == xt[x].pc \in {"z_open", "z_unique", "z_mkdir", "z_entry", "z_copy"}

\* The paths a step makes or changes.
Touched == {p \in DOMAIN fs' : p \notin DOMAIN fs \/ fs'[p] # fs[p]}

\* x and y are successive extractions of one archive and both returned Ok.
Consecutive(x, y) ==
    /\ y = x + 1
    /\ xt[x].pc = "done" /\ xt[y].pc = "done"
    /\ xt[x].result.tag = "Ok" /\ xt[y].result.tag = "Ok"
    /\ xt[x].archive = xt[y].archive

C22_SecondIsFirstSuffixed ==
    \A x, y \in Extractions :
        Consecutive(x, y) =>
            /\ xt[y].result.val # xt[x].result.val
            /\ xt[y].result.val = xt[x].result.val \o " (2)"

\* C22 amended: two successive successful extractions of one archive return
\* two different directories; the second is the base name suffixed with " (2)"
\* when the first got the base name and "name (2)" was free when the second
\* chose; and no step of the second touches what is under the first's directory.
C22_SecondGetsNextFreeName ==
    /\ [](\A x, y \in Extractions :
            Consecutive(x, y) => xt[y].result.val # xt[x].result.val)
    /\ [][\A x, y \in Extractions :
            (/\ y = x + 1
             /\ xt[x].pc = "done" /\ xt[x].result.tag = "Ok"
             /\ xt[y].archive = xt[x].archive
             /\ xt'[y] # xt[y]) =>
                LET first == xt[x].result.val
                    name == ArchiveOf(x).stem
                IN  /\ Chooses(y) =>
                          /\ xt'[y].output_dir # first
                          /\ (first = name /\ <<name \o " (2)">> \notin DOMAIN fs)
                                => xt'[y].output_dir = name \o " (2)"
                    /\ \A p \in DOMAIN fs \cup DOMAIN fs' :
                          IsPrefix(<<first>>, p) =>
                              p \in DOMAIN fs /\ p \in DOMAIN fs' /\ fs'[p] = fs[p]
         ]_vars

\* C22 witness: the first extraction returned "ar", the second "ar (2)".
C22_Witness ==
    \E x, y \in Extractions :
        /\ Consecutive(x, y)
        /\ xt[x].result.val = "ar"
        /\ xt[y].result.val = "ar (2)"

\* C23: the percentages of the extraction-progress events of one extraction
\* strictly increase; an event is emitted only when the whole percentage of the
\* bytes written is above the last one emitted, and carries that percentage.
C23_ProgressStrictlyIncreases ==
    /\ [](\A x \in Extractions :
            /\ \A j, k \in 1..Len(xt[x].events) :
                 j < k => xt[x].events[j].percentage < xt[x].events[k].percentage
            /\ xt[x].last_pct =
                 IF xt[x].events = <<>> THEN 0
                 ELSE xt[x].events[Len(xt[x].events)].percentage)
    /\ [][\A x \in Extractions :
            Len(xt'[x].events) > Len(xt[x].events) =>
                LET e == xt'[x].events[Len(xt'[x].events)]
                    whole == (xt'[x].bytes_written * 100) \div xt[x].total_bytes
                IN  /\ xt'[x].events = Append(xt[x].events, e)
                    /\ e.percentage > xt[x].last_pct
                    /\ e.percentage = IF whole > 100 THEN 100 ELSE whole
         ]_vars

\* C23 witness: an extraction has emitted two events.
C23_Witness ==
    \E x \in Extractions : Len(xt[x].events) >= 2

\* Extraction x was given a ZIP archive with no entries.
EmptyZip(x) ==
    /\ xt[x].archive # 0
    /\ ArchiveOf(x).ext \in {"zip", "ZIP"}
    /\ ArchiveOf(x).entries = <<>>

\* C24: extracting a ZIP archive with zero entries, once the archive is opened,
\* returns Err("Archive is empty"); no step of the extraction changes the
\* target directory, and it never returns Ok.
C24_EmptyZipFailsAndCreatesNothing ==
    [][\A x \in Extractions :
         (EmptyZip(x) /\ xt'[x] # xt[x]) =>
             /\ fs' = fs
             /\ xt'[x].result.tag # "Ok"
             /\ (xt[x].pc = "z_open" /\ faults' = faults) =>
                    /\ xt'[x].pc = "finish"
                    /\ xt'[x].result = [tag |-> "Err", val |-> "Archive is empty"]
      ]_vars

\* C24 witness: an extraction of the empty ZIP archive returned that error.
C24_Witness ==
    \E x \in Extractions :
        /\ EmptyZip(x)
        /\ xt[x].pc = "done"
        /\ xt[x].result = [tag |-> "Err", val |-> "Archive is empty"]

\* Every entry name has a '/' and all names start with the same component.
UnderOneFolder(entries) ==
    /\ entries # <<>>
    /\ \A i \in 1..Len(entries) : Len(entries[i].name) >= 2 \/ entries[i].dir
    /\ \A i, j \in 1..Len(entries) : entries[i].name[1] = entries[j].name[1]

\* C25: a pass of the ZIP entry loop that does not fail writes the entry at
\* output_dir joined with its name, less the leading folder when every entry
\* lies under one and the same top-level folder (the folder's own entry is
\* then skipped); with two top-level names or an entry without '/', the whole
\* name is kept.  It makes nothing else.
C25_SingleRootIsStripped ==
    [][\A x \in Extractions :
         (/\ xt[x].pc = "z_entry" /\ xt[x].i <= Len(EntriesOf(x))
          /\ xt'[x] # xt[x] /\ xt'[x].result.tag # "Err") =>
             LET e == EntriesOf(x)[xt[x].i]
                 rel == IF UnderOneFolder(EntriesOf(x)) THEN Tail(e.name) ELSE e.name
                 at == OutputPath(x) \o rel
             IN  IF rel = <<>>
                 THEN fs' = fs /\ xt'[x].i = xt[x].i + 1
                 ELSE /\ at \in DOMAIN fs'
                      /\ fs'[at].kind = (IF e.dir THEN "dir" ELSE "file")
                      /\ fs'[at].by = x
                      /\ ~e.dir => xt'[x].out_path = at
                      /\ \A p \in DOMAIN fs' \ DOMAIN fs : IsPrefix(p, at)
      ]_vars

\* C25 witness: root/sub/b.txt of the first archive is at <output_dir>/sub/b.txt
\* and there is no <output_dir>/root.
C25_Witness ==
    \E x \in Extractions :
        /\ xt[x].archive = 1 /\ xt[x].output_dir # ""
        /\ OutputPath(x) \o <<"sub", "b.txt">> \in DOMAIN fs
        /\ OutputPath(x) \o <<"root">> \notin DOMAIN fs

-----------------------------------------------------------------------------
\* Vocabulary of the lib.rs claims.

\* A command of lib.rs is invoked in this step.
Invoked == n_lib' = n_lib + 1

\* paste_items computes its destination paths in this step.
PasteChoosesPaths ==
    Invoked /\ shell'.at = n_lib' /\ shell'.cmd = "paste_items" /\ shell'.pasted # <<>>

\* get_clipboard_info answers from the cache in this step.
CacheHit == Invoked /\ gci'.at = n_lib' /\ gci'.hit

\* What the clipboard holds, as the fields of ClipboardInfo that say so.
Shows(info, content) ==
    /\ info.has_files = (content.files # <<>>)
    /\ info.paths = [i \in 1..Len(content.files) |-> FileName(content.files[i])]
    /\ info.is_cut = (content.files # <<>> /\ content.effect = 2)
    /\ content.files = <<>> => info.has_image = content.dib

\* C27: get_next_available_path(dir, name) is dir/name when that does not
\* exist, else dir/"<stem> - Copia<ext>" when that does not exist, else
\* dir/"<stem> - Copia (n)<ext>" for the smallest n >= 2 that does not exist;
\* it never names an existing entry.
C27_NextAvailablePathIsFirstFree ==
    [][PasteChoosesPaths =>
         \A i \in 1..Len(shell'.pasted) :
            LET n == Contents[clip.content].files[i]
                ext == IF n.ext = <<>> THEN "" ELSE "." \o n.ext[1]
                name == n.stem \o ext
                copia == n.stem \o " - Copia" \o ext
                path == shell'.pasted[i]
            IN  /\ path \notin folder
                /\ name \notin folder => path = name
                /\ (name \in folder /\ copia \notin folder) => path = copia
                /\ (name \in folder /\ copia \in folder) =>
                      \E k \in 2..(Cardinality(folder) + 2) :
                         /\ path = n.stem \o " - Copia (" \o ToString(k) \o ")" \o ext
                         /\ \A j \in 2..(k - 1) :
                              n.stem \o " - Copia (" \o ToString(j) \o ")" \o ext \in folder
      ]_vars

\* C27 witness: with photo.jpg and "photo - Copia.jpg" there, paste_items chose
\* "photo - Copia (2).jpg".
C27_Witness ==
    /\ shell.cmd = "paste_items"
    /\ shell.pasted = <<"photo - Copia (2).jpg">>
    /\ {"photo.jpg", "photo - Copia.jpg"} \subseteq folder

\* C28: a get_clipboard_info call that answers from the cache returns the
\* file, cut and image data of what the clipboard holds at the time of the call.
C28_CacheHitShowsCurrentClipboard ==
    [][CacheHit => Shows(gci'.ret[1], Contents[clip.content])]_vars

\* C29: a Shell mutation the user cancels returns an error that says it was
\* aborted by the user, whatever the command (delete_item, rename_item,
\* delete_items, paste_items).
C29_CancelReportedAsAbortedByUser ==
    (shell.pc = "idle" /\ shell.user = "cancel") =>
        /\ shell.result.tag = "Err"
        /\ shell.result.val \in {"Deletion aborted by user", "Rename aborted by user",
                                 "Operation aborted by user"}

-----------------------------------------------------------------------------
\* The statement of the handshake that follows each one: the wait for the
\* button may poll again, the activation loop may go round again, every other
\* statement is left once.
HsSuccessors(pc) ==
    CASE pc = "hs_mouse" -> {"hs_mouse", "hs_send"}
      [] pc = "hs_send"  -> {"hs_loop"}
      [] pc = "hs_loop"  -> {"hs_loop", "hs_final"}
      [] pc = "hs_final" -> {"perform"}

\* The statement each statement of the handshake is reached from, when it is
\* not repeated.
HsPredecessor(pc) ==
    CASE pc = "hs_mouse" -> "add"
      [] pc = "hs_send"  -> "hs_mouse"
      [] pc = "hs_loop"  -> "hs_send"
      [] pc = "hs_final" -> "hs_loop"

\* C30: within one command the handshake runs in this order, each step ended
\* before the next begins: the wait for the mouse button (release or timeout),
\* the synchronous WM_NULL to the owner window, the activation loop, the final
\* AllowSetForegroundWindow, and only then PerformOperations. A step of the
\* handshake is entered only from the one before it, for the same command, and
\* left only for the one after it (or by the thread ending); the command with
\* an owner window reaches PerformOperations only from the final grant, and the
\* Shell operation is invoked only from there.
C30_HandshakeStepsInOrder ==
    [][\A k \in Workers :
          /\ (InHandshake(k) /\ wk'[k].pc # wk[k].pc) =>
                wk'[k].pc \in HsSuccessors(wk[k].pc) \cup {"panicked"}
          /\ InHandshake(k) => wk'[k].cur = wk[k].cur
          /\ (wk'[k].pc \in {"hs_mouse", "hs_send", "hs_loop", "hs_final"}
                 /\ wk'[k].pc # wk[k].pc) =>
                /\ wk[k].pc = HsPredecessor(wk'[k].pc)
                /\ wk'[k].cur = wk[k].cur
          /\ (wk'[k].pc = "perform" /\ wk[k].pc # "perform"
                 /\ wk'[k].cur.hwnd = "Main") =>
                wk[k].pc = "hs_final" /\ wk'[k].hs = "done"
          /\ (wk[k].cur.kind \in FileOpKinds
                 /\ performs'[wk[k].cur.id] # performs[wk[k].cur.id]) =>
                /\ wk[k].pc = "perform"
                /\ wk[k].cur.hwnd = "Main" => wk[k].hs = "done"
      ]_vars

\* C30 witness: a paste with an owner window has had its Shell operation
\* invoked once, after a handshake that went through all of its steps and
\* whose loop converged.
C30_Witness ==
    \E k \in Workers :
        /\ wk[k].pc = "refresh"
        /\ wk[k].cur.kind = "PasteItems"
        /\ wk[k].cur.hwnd = "Main"
        /\ wk[k].hs = "done"
        /\ ~wk[k].exhausted
        /\ performs[wk[k].cur.id] = 1

-----------------------------------------------------------------------------
\* The worker attaches its input queue in this step.
Attaches(k) == ~wk[k].attached /\ wk'[k].attached

\* The worker's attachment ends in this step.
Detaches(k) == wk[k].attached /\ ~wk'[k].attached

\* C31: the worker attaches its input queue only where the command's guard is
\* made, for an owner handle that is not null and whose thread is another one
\* than the worker's; an attachment that was made is in place at every
\* statement from there through the handshake and PerformOperations, and ends
\* only when the command returns (after PerformOperations has returned, or on
\* an error before the handshake) or when the thread unwinds.
C31_AttachedThroughHandshakeAndPerform ==
    [][\A k \in Workers :
          /\ Attaches(k) =>
                /\ wk[k].pc = "owner"
                /\ wk[k].cur.hwnd = "Main"
                /\ wk'[k].target_thread_id \notin {0, WorkerTid(k)}
          /\ Detaches(k) =>
                \/ wk'[k].pc = "panicked"
                \/ /\ wk'[k].pc = "reply"
                   /\ \/ wk[k].pc = "resolve" /\ performs[wk[k].cur.id] = 0
                      \/ /\ wk[k].pc \in {"perform", "refresh"}
                         /\ performs'[wk[k].cur.id] = 1
          /\ (wk[k].attached /\ (InHandshake(k) \/ wk[k].pc = "add")
                 /\ wk'[k].pc # "panicked") => wk'[k].attached
      ]_vars

\* C31 witness: PerformOperations of a move has returned after a handshake,
\* and the attachment to the owner window's thread is still in place.
C31_Witness ==
    \E k \in Workers :
        /\ wk[k].pc = "refresh"
        /\ wk[k].cur.kind = "MoveItems"
        /\ wk[k].attached
        /\ wk[k].target_thread_id = UiTid
        /\ wk[k].hs = "done"

-----------------------------------------------------------------------------
\* C32 (as stated): a timer tick leaves an Armed overlay Armed exactly when the
\* cursor is inside the owner window's rectangle, a left or right mouse button
\* is down and Escape is not down; in every other case where the cursor
\* position can be read the tick hides the overlay; a tick that cannot read the
\* cursor position changes nothing.
C32_ArmedExactlyWhenInsideHeldNoEscape ==
    [][(TimerHandled /\ Armed) =>
          \A r \in Readings :
              \/ IF r.ok
                   THEN Armed' <=> (r.inside /\ ButtonHeld(r) /\ ~EscapeHeld(r))
                   ELSE UNCHANGED <<visible, timer, parent_z>>
              \/ ~WmTimerStep(r)]_vars

\* C32 (amended): a timer tick that can read the cursor position leaves an
\* Armed overlay Armed exactly when the cursor is inside the owner window's
\* rectangle, GetAsyncKeyState answers non-zero for the left or the right
\* button (down now, or pressed since the previous query) and zero for Escape
\* (not down, and not pressed since the previous query); in every other such
\* case the tick hides the overlay and stops its timer; a tick that cannot read
\* the cursor position changes nothing.
C32_ArmedExactlyWhenKeyStatesSay ==
    [][(TimerHandled /\ Armed) =>
          \A r \in Readings :
              \/ IF r.ok
                   THEN /\ Armed' <=> /\ r.inside
                                      /\ (r.lbutton # 0 \/ r.rbutton # 0)
                                      /\ r.escape = 0
                        /\ ~Armed' => (~visible' /\ ~timer')
                   ELSE UNCHANGED <<visible, timer, parent_z>>
              \/ ~WmTimerStep(r)]_vars

\* C32 witness: a tick has been handled and the overlay is still Armed over a
\* topmost owner.
C32_Witness ==
    /\ TICKS = 1
    /\ Armed
    /\ parent_z = "topmost"
    /\ drops = 0
    /\ main_queue = <<>>

-----------------------------------------------------------------------------
\* The step is the window procedure handling a WM_LBUTTONDOWN.
ButtonHandled == lbuttons' # lbuttons

-----------------------------------------------------------------------------
\* C34: in every reachable state, whatever the interleaving of show_overlay,
\* hide_overlay, timer ticks, drops and button messages, the polling timer of
\* the overlay is running if and only if the overlay is shown. (The timer is
\* timer 1 of the one stored window, which SetTimer sets or restarts: the
\* window has no second one.)
C34_TimerRunsIffShown == timer <=> visible

-----------------------------------------------------------------------------
-----------------------------------------------------------------------------
\* The results that are errors.
ErrorTags == {"ErrList", "ErrEmpty", "ErrCreate", "ErrDest", "ErrPerform"}

\* C36: 'refresh-tab' is emitted only after the PerformOperations of a
\* mutating command has succeeded: the step that emits it is taken by a worker
\* whose file operation has just been performed without error, and it leaves
\* the result Ok; a command that has an error for a result (IFileOperation
\* creation, destination resolution, PerformOperations) has emitted no
\* refresh, and neither has a ListFiles command, whatever its result.
C36_RefreshOnlyAfterSuccess ==
    /\ [](\A k \in Workers :
            Executing(k) =>
               /\ wk[k].result.tag \in ErrorTags => refreshed[wk[k].cur.id] = 0
               /\ wk[k].cur.kind = "ListFiles" => refreshed[wk[k].cur.id] = 0)
    /\ [](\A i \in Calls : produced[i].tag \in ErrorTags => refreshed[i] = 0)
    /\ [][\A i \in Calls :
             refreshed'[i] # refreshed[i] =>
                \E k \in Workers :
                    /\ wk[k].cur.id = i
                    /\ wk[k].cur.kind \in FileOpKinds
                    /\ wk[k].pc = "refresh"
                    /\ performs[i] = 1
                    /\ wk'[k].result.tag = "Ok"
                    /\ refreshed'[i] = 1]_vars

\* C36 witness: one command has failed in PerformOperations and emitted no
\* refresh, another has succeeded and emitted one.
C36_Witness ==
    \E i, j \in Calls :
        /\ produced[i].tag = "ErrPerform" /\ refreshed[i] = 0
        /\ produced[j].tag = "Ok" /\ refreshed[j] = 1

-----------------------------------------------------------------------------
-----------------------------------------------------------------------------
\* The extraction has chosen and created its output directory and has not
\* returned from extract_zip or extract_7z yet: it writes below that directory.
Extracting(x) ==
    xt[x].pc \in {"z_entry", "z_copy", "s_open", "s_entry", "s_copy", "s_flatten"}

\* C38: two extractions of archives with the same base name that run
\* concurrently into the same target directory never have the same output
\* directory.
C38_ConcurrentOutputDirsDiffer ==
    \A x, y \in Extractions :
        (x # y /\ Extracting(x) /\ Extracting(y)
           /\ ArchiveOf(x).stem = ArchiveOf(y).stem)
            => xt[x].output_dir # xt[y].output_dir

-----------------------------------------------------------------------------
\* Extraction x returns from flatten_single_child_dir in this step.
FlattenReturns(x) == xt[x].pc = "s_flatten" /\ xt'[x].pc = "finish"

\* The entries of the output directory of x, and whether they are one directory.
OutputEntries(x) == {p \in DOMAIN fs : Len(p) = 2 /\ IsPrefix(OutputPath(x), p)}
SingleChildDir(x) ==
    /\ Cardinality(OutputEntries(x)) = 1
    /\ \A p \in OutputEntries(x) : fs[p].kind = "dir"

\* What was below the single child is, after the step, below the output
\* directory itself with one level less; the output directory holds nothing
\* else, nothing outside it has changed and no temporary directory is there.
Flattened(x) ==
    LET dir == OutputPath(x)
        below == {p \in DOMAIN fs : Len(p) > 2 /\ IsPrefix(dir, p)}
        Up(p) == dir \o SubSeq(p, 3, Len(p))
    IN  /\ dir \in DOMAIN fs' /\ fs'[dir].kind = "dir"
        /\ \A p \in below : Up(p) \in DOMAIN fs' /\ fs'[Up(p)] = fs[p]
        /\ {q \in DOMAIN fs' : Len(q) > 1 /\ IsPrefix(dir, q)} = {Up(p) : p \in below}
        /\ \A q \in DOMAIN fs : ~IsPrefix(dir, q) => q \in DOMAIN fs' /\ fs'[q] = fs[q]
        /\ \A q \in DOMAIN fs' : ~IsPrefix(dir, q) => q \in DOMAIN fs
        /\ TempPath \notin DOMAIN fs'

-----------------------------------------------------------------------------
\* C40: a copy, move, delete or paste command replies with success only if
\* every source path it was given was added to the Shell operation: no worker
\* is about to send Ok for such a command after having skipped a source path
\* that did not resolve to a Shell item.
C40_SuccessOnlyIfEverySourceAdded ==
    \A k \in Workers :
        (wk[k].pc = "reply" /\ wk[k].cur.kind \in FileOpKinds \ {"RenameItem"}
           /\ wk[k].result.tag = "Ok")
            => ~wk[k].skipped

====
